---- MODULE Spec2Model ----
(***************************************************************************)
(* Blocks world of Akkuun/MondeDeBlocs (src/Arbre): the legality           *)
(* predicates, the forward and reverse action generators, the transition   *)
(* functions, the canonical keys and the searches built on them.           *)
(*                                                                         *)
(* A state is the Python list of object dictionaries: a sequence of        *)
(* records [ID, NOM, FORME, SUR_ID, COUCHE].  FORME holds the value the    *)
(* code compares, obj['FORME'].strip().upper().                            *)
(***************************************************************************)
EXTENDS Integers, Sequences, FiniteSets, TLC

VARIABLES
    impl,       \* which source file's generator / transition pair is running
    objects,    \* the current state (list of object records)
    last,       \* the last generated action and what applying it reported
    \* a search call: its arguments, the search object's fields, its locals
    start_state, goal_state, max_depth,
    goal_global,        \* the module global create_node reads
    graph_data, node_counter, visited_states,
    queue, solutions, found_solution, solution_path,
    pc,                 \* "idle", "loop" (in the while loop), "done" (returned)
    previous    \* what the call before this one returned and left in the
                \* search object's arena; <<>> for a first call

runVars == <<objects, last>>

searchVars == <<start_state, goal_state, max_depth, goal_global, graph_data,
                node_counter, visited_states, queue, solutions,
                found_solution, solution_path, pc, previous>>

vars == <<impl, objects, last, start_state, goal_state, max_depth, goal_global,
          graph_data, node_counter, visited_states, queue, solutions,
          found_solution, solution_path, pc, previous>>

-----------------------------------------------------------------------------
(* Bounds and program constants *)

\* every state of at most NumObjects non-table objects is a start state
NumObjects == 2

\* the id the cycle guard of the all-paths modules takes for the ground
GroundId == 0

\* the table's id in the repository's data set
DataTableId == 25

\* the largest max_depth a search is called with
MaxDepth == 3

\* Python's None where an id is expected (a root's parent)
NoneId == -1

\* non-table shapes; SPHERE stands for any shape the code does not name
Shapes == {"CUBE", "CYLINDRE", "DONUT_SAUCISSE", "SPHERE"}

\* (table id, table SUR_ID): the table rests on nothing, so its SUR_ID is
\* either its own id or an id no object has
TableConfigs == {<<GroundId, GroundId>>, <<DataTableId, DataTableId>>}

NoAction == <<"none">>

\* an id no object of the model has
AbsentId == DataTableId + 1

-----------------------------------------------------------------------------
(* Helpers shared by the source files *)

\* next((o for o in objects_data if o['ID'] == obj_id), None): index of the
\* first record with that id, 0 for None
FindIdx(obj_id, objects_data) ==
    IF \E i \in 1..Len(objects_data) : objects_data[i].ID = obj_id
    THEN CHOOSE i \in 1..Len(objects_data) :
            /\ objects_data[i].ID = obj_id
            /\ \A j \in 1..(i - 1) : objects_data[j].ID # obj_id
    ELSE 0

\* concatenation of a sequence of sequences, in order
RECURSIVE Flatten(_)
Flatten(ss) == IF ss = <<>> THEN <<>> ELSE Head(ss) \o Flatten(Tail(ss))

\* set of the elements of a sequence
Range(s) == {s[i] : i \in 1..Len(s)}

\* [obj for obj in objects_data if obj['SUR_ID'] == obj_id]
get_objects_on_top(obj_id, objects_data) ==
    SelectSeq(objects_data, LAMBDA o : o.SUR_ID = obj_id)

-----------------------------------------------------------------------------
(* arbre_graph_json.py: forward predicates, generator and transition *)

\* peut_etre_deplace without its test of the objects on top
peut_etre_deplace_loaded(obj_id, objects_data) ==
    LET i == FindIdx(obj_id, objects_data) IN
    IF i = 0 THEN FALSE
    ELSE objects_data[i].FORME # "TABLE"

peut_etre_deplace(obj_id, objects_data) ==
    LET i == FindIdx(obj_id, objects_data) IN
    IF i = 0 THEN FALSE
    ELSE IF objects_data[i].FORME = "TABLE" THEN FALSE
    ELSE Len(get_objects_on_top(obj_id, objects_data)) = 0

\* peut_etre_couche without its test for cubes
peut_etre_couche_cube(obj_id, objects_data) ==
    LET i == FindIdx(obj_id, objects_data) IN
    IF i = 0 THEN FALSE
    ELSE IF objects_data[i].FORME = "TABLE" THEN FALSE
    ELSE Len(get_objects_on_top(obj_id, objects_data)) = 0

peut_etre_couche(obj_id, objects_data) ==
    LET i == FindIdx(obj_id, objects_data) IN
    IF i = 0 THEN FALSE
    ELSE IF objects_data[i].FORME = "TABLE" THEN FALSE
    ELSE IF objects_data[i].FORME = "CUBE" THEN FALSE
    ELSE Len(get_objects_on_top(obj_id, objects_data)) = 0

\* peut_recevoir_deplacement with the donut test taking a standing donut
peut_recevoir_deplacement_standing(obj_id, objects_data) ==
    LET i == FindIdx(obj_id, objects_data) IN
    IF i = 0 THEN FALSE
    ELSE LET obj == objects_data[i] IN
         IF obj.FORME = "TABLE" THEN TRUE
         ELSE IF obj.FORME = "CYLINDRE" /\ ~obj.COUCHE THEN TRUE
         ELSE IF obj.FORME = "DONUT_SAUCISSE" /\ ~obj.COUCHE THEN TRUE
         ELSE IF obj.FORME = "CUBE"
              THEN Len(get_objects_on_top(obj_id, objects_data)) = 0
         ELSE FALSE

peut_recevoir_deplacement(obj_id, objects_data) ==
    LET i == FindIdx(obj_id, objects_data) IN
    IF i = 0 THEN FALSE
    ELSE LET obj == objects_data[i] IN
         IF obj.FORME = "TABLE" THEN TRUE
         ELSE IF obj.FORME = "CYLINDRE" /\ ~obj.COUCHE THEN TRUE
         ELSE IF obj.FORME = "DONUT_SAUCISSE" /\ obj.COUCHE THEN TRUE
         ELSE IF obj.FORME = "CUBE"
              THEN Len(get_objects_on_top(obj_id, objects_data)) = 0
         ELSE FALSE

\* a loop body that does not ask whether the target can receive
ForwardActionsOf_any_target(obj, objects_data) ==
    LET moves ==
            IF peut_etre_deplace(obj.ID, objects_data)
            THEN Flatten([k \in 1..Len(objects_data) |->
                    IF objects_data[k].ID # obj.ID
                    THEN << <<"move", obj.ID, objects_data[k].ID>> >>
                    ELSE <<>>])
            ELSE <<>>
        lay == IF peut_etre_couche(obj.ID, objects_data)
               THEN << <<"lay_down", obj.ID>> >>
               ELSE <<>>
    IN moves \o lay

\* the actions the loop body of get_all_possible_actions appends for one obj
ForwardActionsOf(obj, objects_data) ==
    LET moves ==
            IF peut_etre_deplace(obj.ID, objects_data)
            THEN Flatten([k \in 1..Len(objects_data) |->
                    IF /\ objects_data[k].ID # obj.ID
                       /\ peut_recevoir_deplacement(objects_data[k].ID, objects_data)
                    THEN << <<"move", obj.ID, objects_data[k].ID>> >>
                    ELSE <<>>])
            ELSE <<>>
        lay == IF peut_etre_couche(obj.ID, objects_data)
               THEN << <<"lay_down", obj.ID>> >>
               ELSE <<>>
    IN moves \o lay

get_all_possible_actions(objects_data) ==
    Flatten([k \in 1..Len(objects_data) |->
                ForwardActionsOf(objects_data[k], objects_data)])

\* the name lookups of the descriptions raise StopIteration for an absent id
NameOf(obj_id, objects_data) == objects_data[FindIdx(obj_id, objects_data)].NOM

\* apply_action returns (new_state, success, description); raised marks the
\* StopIteration of a description lookup on an absent id
\* a move that also turns the object over, and no other action
apply_action_move_turns(objects_data, action) ==
    LET i == FindIdx(action[2], objects_data) IN
    IF /\ action[1] = "move" /\ i # 0
       /\ peut_etre_deplace(action[2], objects_data)
       /\ peut_recevoir_deplacement(action[3], objects_data)
    THEN [new_state |-> [objects_data EXCEPT ![i].SUR_ID = action[3],
                                             ![i].COUCHE = ~@],
          success |-> TRUE, description |-> "", raised |-> FALSE]
    ELSE [new_state |-> objects_data, success |-> FALSE,
          description |-> "", raised |-> FALSE]

apply_action(objects_data, action) ==
    IF action[1] = "move" THEN
        LET obj_id == action[2]
            target_id == action[3]
            i == FindIdx(obj_id, objects_data)
            ok == /\ peut_etre_deplace(obj_id, objects_data)
                  /\ peut_recevoir_deplacement(target_id, objects_data)
                  /\ i # 0
        IN IF i = 0 \/ FindIdx(target_id, objects_data) = 0
           THEN [new_state |-> objects_data, success |-> FALSE,
                 description |-> "", raised |-> TRUE]
           ELSE [new_state |-> IF ok
                               THEN [objects_data EXCEPT ![i].SUR_ID = target_id]
                               ELSE objects_data,
                 success |-> ok,
                 description |-> "Deplacer " \o NameOf(obj_id, objects_data)
                                 \o " sur " \o NameOf(target_id, objects_data),
                 raised |-> FALSE]
    ELSE IF action[1] = "lay_down" THEN
        LET obj_id == action[2]
            i == FindIdx(obj_id, objects_data)
            ok == peut_etre_couche(obj_id, objects_data)
        IN IF i = 0
           THEN [new_state |-> objects_data, success |-> FALSE,
                 description |-> "", raised |-> TRUE]
           ELSE [new_state |-> IF ok /\ ~objects_data[i].COUCHE
                               THEN [objects_data EXCEPT ![i].COUCHE = TRUE]
                               ELSE objects_data,
                 success |-> ok,
                 description |-> "Coucher " \o NameOf(obj_id, objects_data),
                 raised |-> FALSE]
    ELSE [new_state |-> objects_data, success |-> FALSE,
          description |-> "Action inconnue", raised |-> FALSE]

-----------------------------------------------------------------------------
(* arbre_graph_json.py: state equality and the canonical key *)

states_equal(state1, state2) ==
    IF Len(state1) # Len(state2) THEN FALSE
    ELSE \A i \in 1..Len(state1) :
            LET j == FindIdx(state1[i].ID, state2) IN
            /\ j # 0
            /\ state1[i].SUR_ID = state2[j].SUR_ID
            /\ state1[i].COUCHE = state2[j].COUCHE

\* str(True), str(False)
BoolStr(b) == IF b THEN "True" ELSE "False"

\* sorted(objects_data, key=lambda x: x['ID']): a stable sort
RECURSIVE InsertById(_, _)
InsertById(obj, sorted) ==
    IF sorted = <<>> THEN <<obj>>
    ELSE IF obj.ID < Head(sorted).ID THEN <<obj>> \o sorted
    ELSE <<Head(sorted)>> \o InsertById(obj, Tail(sorted))

RECURSIVE SortById(_)
SortById(objects_data) ==
    IF objects_data = <<>> THEN <<>>
    ELSE InsertById(objects_data[Len(objects_data)],
                    SortById(SubSeq(objects_data, 1, Len(objects_data) - 1)))

\* sep.join(parts)
RECURSIVE Join(_, _)
Join(parts, sep) ==
    IF parts = <<>> THEN ""
    ELSE IF Len(parts) = 1 THEN parts[1]
    ELSE parts[1] \o sep \o Join(Tail(parts), sep)

state_to_string(objects_data) ==
    LET sorted_objects == SortById(objects_data) IN
    Join([i \in 1..Len(sorted_objects) |->
            ToString(sorted_objects[i].ID) \o ":"
            \o ToString(sorted_objects[i].SUR_ID) \o ":"
            \o BoolStr(sorted_objects[i].COUCHE)], "|")

-----------------------------------------------------------------------------
(* arbre_graph_json_inverse.py: reverse predicates, generator, transition *)

\* a liftability test that forgets the objects resting on obj_id
peut_etre_retire_de_dessus_loaded(obj_id, objects_data) ==
    LET i == FindIdx(obj_id, objects_data) IN
    IF i = 0 THEN FALSE
    ELSE objects_data[i].FORME # "TABLE"

peut_etre_retire_de_dessus(obj_id, objects_data) ==
    LET i == FindIdx(obj_id, objects_data) IN
    IF i = 0 THEN FALSE
    ELSE IF objects_data[i].FORME = "TABLE" THEN FALSE
    ELSE Len(get_objects_on_top(obj_id, objects_data)) = 0

peut_etre_redresse(obj_id, objects_data) ==
    LET i == FindIdx(obj_id, objects_data) IN
    IF i = 0 THEN FALSE
    ELSE IF objects_data[i].FORME = "TABLE" THEN FALSE
    ELSE IF objects_data[i].FORME = "CUBE" THEN FALSE
    ELSE IF ~objects_data[i].COUCHE THEN FALSE
    ELSE Len(get_objects_on_top(obj_id, objects_data)) = 0

peut_etre_couche_inverse(obj_id, objects_data) ==
    LET i == FindIdx(obj_id, objects_data) IN
    IF i = 0 THEN FALSE
    ELSE IF objects_data[i].FORME = "TABLE" THEN FALSE
    ELSE IF objects_data[i].FORME = "CUBE" THEN FALSE
    ELSE IF objects_data[i].COUCHE THEN FALSE
    ELSE Len(get_objects_on_top(obj_id, objects_data)) = 0

\* redresser mutates the list it is given and returns a flag: here the pair
\* a stand-up that also puts the object on the first object of the list
redresser_and_move(obj_id, objects_data) ==
    LET i == FindIdx(obj_id, objects_data) IN
    IF ~peut_etre_redresse(obj_id, objects_data) \/ i = 0
    THEN [state |-> objects_data, ok |-> FALSE]
    ELSE [state |-> [objects_data EXCEPT ![i].COUCHE = FALSE,
                                         ![i].SUR_ID = objects_data[1].ID],
          ok |-> TRUE]

redresser(obj_id, objects_data) ==
    LET i == FindIdx(obj_id, objects_data) IN
    IF ~peut_etre_redresse(obj_id, objects_data) \/ i = 0
    THEN [state |-> objects_data, ok |-> FALSE]
    ELSE [state |-> [objects_data EXCEPT ![i].COUCHE = FALSE], ok |-> TRUE]

coucher_inverse(obj_id, objects_data) ==
    LET i == FindIdx(obj_id, objects_data) IN
    IF ~peut_etre_couche_inverse(obj_id, objects_data) \/ i = 0
    THEN [state |-> objects_data, ok |-> FALSE]
    ELSE [state |-> [objects_data EXCEPT ![i].COUCHE = TRUE], ok |-> TRUE]

\* the target test of the reverse generator, on the target's record
ReverseTargetOk(target_obj, objects_data) ==
    IF target_obj.FORME = "TABLE" THEN TRUE
    ELSE IF target_obj.FORME = "CUBE"
         THEN Len(get_objects_on_top(target_obj.ID, objects_data)) = 0
    ELSE IF target_obj.FORME = "CYLINDRE" /\ ~target_obj.COUCHE THEN TRUE
    ELSE IF target_obj.FORME = "DONUT_SAUCISSE" /\ target_obj.COUCHE THEN TRUE
    ELSE FALSE

ReverseActionsOf(obj, objects_data) ==
    LET moves ==
            IF peut_etre_retire_de_dessus(obj.ID, objects_data)
            THEN Flatten([k \in 1..Len(objects_data) |->
                    IF /\ objects_data[k].ID # obj.ID
                       /\ ReverseTargetOk(objects_data[k], objects_data)
                    THEN << <<"move_to", obj.ID, objects_data[k].ID>> >>
                    ELSE <<>>])
            ELSE <<>>
        stand == IF peut_etre_redresse(obj.ID, objects_data)
                 THEN << <<"stand_up", obj.ID>> >>
                 ELSE <<>>
        lay == IF peut_etre_couche_inverse(obj.ID, objects_data)
               THEN << <<"lay_down", obj.ID>> >>
               ELSE <<>>
    IN moves \o stand \o lay

get_all_possible_reverse_actions(objects_data) ==
    Flatten([k \in 1..Len(objects_data) |->
                ReverseActionsOf(objects_data[k], objects_data)])

apply_reverse_action(objects_data, action) ==
    IF action[1] = "move_to" THEN
        LET obj_id == action[2]
            target_id == action[3]
            i == FindIdx(obj_id, objects_data)
            ok == peut_etre_retire_de_dessus(obj_id, objects_data) /\ i # 0
        IN IF i = 0 \/ FindIdx(target_id, objects_data) = 0
           THEN [new_state |-> objects_data, success |-> FALSE,
                 description |-> "", raised |-> TRUE]
           ELSE [new_state |-> IF ok
                               THEN [objects_data EXCEPT ![i].SUR_ID = target_id]
                               ELSE objects_data,
                 success |-> ok,
                 description |-> "Deplacer " \o NameOf(obj_id, objects_data)
                                 \o " sur " \o NameOf(target_id, objects_data),
                 raised |-> FALSE]
    ELSE IF action[1] = "stand_up" THEN
        LET obj_id == action[2]
            r == redresser(obj_id, objects_data)
        IN IF FindIdx(obj_id, objects_data) = 0
           THEN [new_state |-> objects_data, success |-> FALSE,
                 description |-> "", raised |-> TRUE]
           ELSE [new_state |-> r.state, success |-> r.ok,
                 description |-> "Redresser " \o NameOf(obj_id, objects_data),
                 raised |-> FALSE]
    ELSE IF action[1] = "lay_down" THEN
        LET obj_id == action[2]
            r == coucher_inverse(obj_id, objects_data)
        IN IF FindIdx(obj_id, objects_data) = 0
           THEN [new_state |-> objects_data, success |-> FALSE,
                 description |-> "", raised |-> TRUE]
           ELSE [new_state |-> r.state, success |-> r.ok,
                 description |-> "Coucher " \o NameOf(obj_id, objects_data),
                 raised |-> FALSE]
    ELSE [new_state |-> objects_data, success |-> FALSE,
          description |-> "Action inverse inconnue", raised |-> FALSE]

-----------------------------------------------------------------------------
(* exhaustive_all_paths.py: reverse generator, cycle guard and transition *)

peut_etre_retire_de_dessus_exh(obj_id, objects_data) ==
    Len(SelectSeq(objects_data, LAMBDA o : o.SUR_ID = obj_id)) = 0

redresser_exh(obj_id, objects_data) ==
    LET i == FindIdx(obj_id, objects_data) IN
    IF i # 0 /\ objects_data[i].COUCHE
    THEN [state |-> [objects_data EXCEPT ![i].COUCHE = FALSE], ok |-> TRUE]
    ELSE [state |-> objects_data, ok |-> FALSE]

coucher_inverse_exh(obj_id, objects_data) ==
    LET i == FindIdx(obj_id, objects_data) IN
    IF i # 0 /\ ~objects_data[i].COUCHE
    THEN [state |-> [objects_data EXCEPT ![i].COUCHE = TRUE], ok |-> TRUE]
    ELSE [state |-> objects_data, ok |-> FALSE]

\* the while loop of would_create_cycle, from `current` with `visited`
RECURSIVE CycleWalk_exh(_, _, _, _)
CycleWalk_exh(current, visited, obj_id, state) ==
    IF current = GroundId THEN FALSE
    ELSE IF current \in visited \/ current = obj_id THEN TRUE
    ELSE IF FindIdx(current, state) = 0 THEN FALSE
    ELSE CycleWalk_exh(state[FindIdx(current, state)].SUR_ID,
                       visited \cup {current}, obj_id, state)

would_create_cycle_exh(obj_id, target_id, state) ==
    CycleWalk_exh(target_id, {}, obj_id, state)

\* a loop body that does not skip the table
ReverseActionsOf_exh_table(obj, state) ==
    LET moves ==
            IF peut_etre_retire_de_dessus_exh(obj.ID, state)
            THEN Flatten([k \in 1..Len(state) |->
                    IF /\ state[k].ID # obj.ID
                       /\ state[k].ID # obj.SUR_ID
                       /\ ~would_create_cycle_exh(obj.ID, state[k].ID, state)
                    THEN << <<"move_to", obj.ID, state[k].ID>> >>
                    ELSE <<>>])
            ELSE <<>>
        stand == IF obj.COUCHE THEN << <<"stand_up", obj.ID>> >> ELSE <<>>
        lay == IF ~obj.COUCHE THEN << <<"lay_down", obj.ID>> >> ELSE <<>>
    IN moves \o stand \o lay

ReverseActionsOf_exh(obj, state) ==
    IF obj.FORME = "TABLE" THEN <<>>
    ELSE
    LET moves ==
            IF peut_etre_retire_de_dessus_exh(obj.ID, state)
            THEN Flatten([k \in 1..Len(state) |->
                    IF /\ state[k].ID # obj.ID
                       /\ state[k].ID # obj.SUR_ID
                       /\ ~would_create_cycle_exh(obj.ID, state[k].ID, state)
                    THEN << <<"move_to", obj.ID, state[k].ID>> >>
                    ELSE <<>>])
            ELSE <<>>
        stand == IF obj.COUCHE THEN << <<"stand_up", obj.ID>> >> ELSE <<>>
        lay == IF ~obj.COUCHE THEN << <<"lay_down", obj.ID>> >> ELSE <<>>
    IN moves \o stand \o lay

get_all_possible_reverse_actions_exh(state) ==
    Flatten([k \in 1..Len(state) |-> ReverseActionsOf_exh(state[k], state)])

apply_reverse_action_exh(state, action) ==
    IF action[1] = "move_to" THEN
        LET obj_id == action[2]
            target_id == action[3]
            i == FindIdx(obj_id, state)
            ok == peut_etre_retire_de_dessus_exh(obj_id, state) /\ i # 0
        IN IF i = 0 \/ FindIdx(target_id, state) = 0
           THEN [new_state |-> state, success |-> FALSE,
                 description |-> "", raised |-> TRUE]
           ELSE [new_state |-> IF ok
                               THEN [state EXCEPT ![i].SUR_ID = target_id]
                               ELSE state,
                 success |-> ok,
                 description |-> "Deplacer " \o NameOf(obj_id, state)
                                 \o " sur " \o NameOf(target_id, state),
                 raised |-> FALSE]
    ELSE IF action[1] = "stand_up" THEN
        LET obj_id == action[2]
            r == redresser_exh(obj_id, state)
        IN IF FindIdx(obj_id, state) = 0
           THEN [new_state |-> state, success |-> FALSE,
                 description |-> "", raised |-> TRUE]
           ELSE [new_state |-> r.state, success |-> r.ok,
                 description |-> "Redresser " \o NameOf(obj_id, state),
                 raised |-> FALSE]
    ELSE IF action[1] = "lay_down" THEN
        LET obj_id == action[2]
            r == coucher_inverse_exh(obj_id, state)
        IN IF FindIdx(obj_id, state) = 0
           THEN [new_state |-> state, success |-> FALSE,
                 description |-> "", raised |-> TRUE]
           ELSE [new_state |-> r.state, success |-> r.ok,
                 description |-> "Coucher " \o NameOf(obj_id, state),
                 raised |-> FALSE]
    ELSE [new_state |-> state, success |-> FALSE,
          description |-> "Action inverse inconnue", raised |-> FALSE]

states_equal_exh(state1, state2) ==
    IF Len(state1) # Len(state2) THEN FALSE
    ELSE \A i \in 1..Len(state1) :
            LET j == FindIdx(state1[i].ID, state2) IN
            /\ j # 0
            /\ state1[i].SUR_ID = state2[j].SUR_ID
            /\ state1[i].COUCHE = state2[j].COUCHE

\* the key of the reverse files: the table is left out
state_to_string_exh(state) ==
    LET sorted_objects == SelectSeq(SortById(state),
                                    LAMBDA obj : obj.FORME # "TABLE") IN
    Join([i \in 1..Len(sorted_objects) |->
            ToString(sorted_objects[i].ID) \o "-"
            \o ToString(sorted_objects[i].SUR_ID) \o "-"
            \o BoolStr(sorted_objects[i].COUCHE)], "|")

-----------------------------------------------------------------------------
(* find_all_winning_paths.py: its copies of the functions above.  Lines     *)
(* 45-176 of that file repeat lines 43-149 of exhaustive_all_paths.py word  *)
(* for word (only docstrings and one comment differ).                       *)

peut_etre_retire_de_dessus_all(obj_id, objects_data) ==
    peut_etre_retire_de_dessus_exh(obj_id, objects_data)

would_create_cycle_all(obj_id, target_id, state) ==
    would_create_cycle_exh(obj_id, target_id, state)

get_all_possible_reverse_actions_all(state) ==
    get_all_possible_reverse_actions_exh(state)

apply_reverse_action_all(state, action) == apply_reverse_action_exh(state, action)

-----------------------------------------------------------------------------
(* Well-formed states and the states a run starts from *)

TableIdx(s) == CHOOSE i \in 1..Len(s) : s[i].FORME = "TABLE"

TableIdOf(s) == s[TableIdx(s)].ID

\* the object reached from obj_id by following SUR_ID n times; the walk
\* stays on the table once it is there and on an id no object has
RECURSIVE Up(_, _, _)
Up(obj_id, n, s) ==
    IF n = 0 \/ obj_id = TableIdOf(s) \/ FindIdx(obj_id, s) = 0 THEN obj_id
    ELSE Up(s[FindIdx(obj_id, s)].SUR_ID, n - 1, s)

\* every non-table object's support chain ends at the table (so the support
\* relation has no cycle and names no absent id)
WellFormed(s) ==
    \A i \in 1..Len(s) :
        s[i].FORME # "TABLE" => Up(s[i].ID, Len(s), s) = TableIdOf(s)

NameList == <<"A", "B", "C", "D", "E">>

\* the state with the table record first and one record per shape[i], id i
MakeState(tc, shape, sur, couche) ==
    << [ID |-> tc[1], NOM |-> "Table", FORME |-> "TABLE",
        SUR_ID |-> tc[2], COUCHE |-> FALSE] >>
    \o [i \in 1..Len(shape) |->
          [ID |-> i, NOM |-> NameList[i], FORME |-> shape[i],
           SUR_ID |-> sur[i], COUCHE |-> couche[i]]]

\* shape lists up to renaming of the objects: shapes in non-decreasing rank
ShapeRank(f) ==
    CASE f = "CUBE" -> 1 [] f = "CYLINDRE" -> 2 [] f = "DONUT_SAUCISSE" -> 3
      [] OTHER -> 4

SortedShapeLists(n) ==
    { shape \in [1..n -> Shapes] :
        \A i \in 1..n, j \in 1..n :
            i < j => ShapeRank(shape[i]) <= ShapeRank(shape[j]) }

\* every shape list of at most NumObjects objects, and the three-object
\* lists the stacking rules need: a cube under two objects, and one object
\* of each shape
ShapeLists ==
    UNION { SortedShapeLists(n) : n \in 1..NumObjects }
    \cup { <<"CUBE", "CUBE", "CUBE">>,
           <<"CUBE", "CYLINDRE", "DONUT_SAUCISSE">>,
           <<"CYLINDRE", "DONUT_SAUCISSE", "SPHERE">> }

\* the support assignments of n objects whose every chain reaches table tid
RECURSIVE Lands(_, _, _, _)
Lands(sur, i, k, tid) ==
    IF i = tid THEN TRUE ELSE IF k = 0 THEN FALSE ELSE Lands(sur, sur[i], k - 1, tid)

Supports(n, tid) ==
    { sur \in [1..n -> (1..n) \cup {tid}] :
        \A i \in 1..n : Lands(sur, i, n, tid) }

\* the lying flags of a shape list: a cube starts standing
Flags(shape) ==
    { couche \in [1..Len(shape) -> BOOLEAN] :
        \A i \in 1..Len(shape) : shape[i] = "CUBE" => ~couche[i] }

\* the well-formed states over a shape list and a table configuration
StatesOf(tc, shape) ==
    { MakeState(tc, shape, sur, couche) :
        sur \in Supports(Len(shape), tc[1]), couche \in Flags(shape) }

StartStates ==
    UNION { UNION { StatesOf(tc, shape) : shape \in ShapeLists } : tc \in TableConfigs }

-----------------------------------------------------------------------------
(* The transition system: a run applies generated actions one after another *)

Impls == {"forward", "inverse", "exhaustive"}

\* no search call is in progress
SearchIdle ==
    /\ start_state = <<>> /\ goal_state = <<>> /\ max_depth = 0
    /\ goal_global = <<>>
    /\ graph_data = <<>> /\ node_counter = 0 /\ visited_states = {}
    /\ queue = <<>> /\ solutions = <<>>
    /\ found_solution = FALSE /\ solution_path = <<>>
    /\ pc = "idle"
    /\ previous = <<>>

Init ==
    /\ impl \in Impls
    /\ objects \in StartStates
    /\ last = [action |-> NoAction, success |-> FALSE]
    /\ SearchIdle

\* one generated action applied; the search loops drop a failed result
Step(results) ==
    \E x \in results :
        /\ objects' = IF x.res.success THEN x.res.new_state ELSE objects
        /\ last' = [action |-> x.action, success |-> x.res.success]

ForwardStep ==
    /\ impl = "forward"
    /\ Step({ [action |-> a, res |-> apply_action(objects, a)] :
                a \in Range(get_all_possible_actions(objects)) })
    /\ UNCHANGED <<impl, searchVars>>

InverseStep ==
    /\ impl = "inverse"
    /\ Step({ [action |-> a, res |-> apply_reverse_action(objects, a)] :
                a \in Range(get_all_possible_reverse_actions(objects)) })
    /\ UNCHANGED <<impl, searchVars>>

ExhaustiveStep ==
    /\ impl = "exhaustive"
    /\ Step({ [action |-> a, res |-> apply_reverse_action_exh(objects, a)] :
                a \in Range(get_all_possible_reverse_actions_exh(objects)) })
    /\ UNCHANGED <<impl, searchVars>>

Next == ForwardStep \/ InverseStep \/ ExhaustiveStep

Spec == Init /\ [][Next]_vars

-----------------------------------------------------------------------------
(* arbre_graph_json.py: GraphSearchJSON *)

\* the node of the arena with that id (first match), 0 for none
FindNode(graph, id) ==
    IF \E i \in 1..Len(graph) : graph[i].id = id
    THEN CHOOSE i \in 1..Len(graph) :
            graph[i].id = id /\ \A j \in 1..(i - 1) : graph[j].id # id
    ELSE 0

\* the module has no global goal_state: main, which sets it, has not run
NoGlobal == <<>>

\* create_node: the arena after the call; the node made is its last element.
\* goal is the module global goal_state, not the goal of the search call
create_node(graph, counter, state, parent_id, action, description, depth, goal) ==
    LET node == [id |-> counter, parent |-> parent_id, children |-> <<>>,
                 states |-> state,
                 is_goal |-> IF goal # NoGlobal THEN states_equal(state, goal)
                             ELSE FALSE,
                 action |-> action, description |-> description,
                 depth |-> depth, state_string |-> state_to_string(state)]
        added == Append(graph, node)
        p == IF parent_id = NoneId THEN 0 ELSE FindNode(added, parent_id)
    IN IF p = 0 THEN added
       ELSE [added EXCEPT ![p].children = Append(@, counter)]

\* a walk that appends where reconstruct_path inserts at the front
RECURSIVE reconstruct_path_node_first(_, _)
reconstruct_path_node_first(graph, node_id) ==
    IF node_id = NoneId THEN <<>>
    ELSE LET i == FindNode(graph, node_id) IN
         IF i = 0 THEN <<>>
         ELSE (IF graph[i].action # <<>>
               THEN <<[action |-> graph[i].action,
                       description |-> graph[i].description]>>
               ELSE <<>>)
              \o reconstruct_path_node_first(graph, graph[i].parent)

\* reconstruct_path: the {action, description} of the nodes from the root
\* down to node_id, a node without an action (the root) left out
RECURSIVE reconstruct_path(_, _)
reconstruct_path(graph, node_id) ==
    IF node_id = NoneId THEN <<>>
    ELSE LET i == FindNode(graph, node_id) IN
         IF i = 0 THEN <<>>
         ELSE reconstruct_path(graph, graph[i].parent)
              \o (IF graph[i].action # <<>>
                  THEN <<[action |-> graph[i].action,
                          description |-> graph[i].description]>>
                  ELSE <<>>)

\* graph_explorer.py, get_path_to_node: the nodes from the root down to
\* node_id; the walk stops at an id no node has
RECURSIVE get_path_to_node_explorer(_, _)
get_path_to_node_explorer(graph, node_id) ==
    IF node_id = NoneId THEN <<>>
    ELSE LET i == FindNode(graph, node_id) IN
         IF i = 0 THEN <<>>
         ELSE get_path_to_node_explorer(graph, graph[i].parent) \o <<graph[i]>>

\* an expansion that gives a child node the depth of its parent
RECURSIVE ForwardExpand_parent_depth(_, _, _)
ForwardExpand_parent_depth(actions, cur, acc) ==
    IF actions = <<>> THEN acc
    ELSE
    LET action == Head(actions)
        r == apply_action(cur.state, action)
        state_str == state_to_string(r.new_state)
    IN IF ~r.success \/ state_str \in acc.visited
       THEN ForwardExpand_parent_depth(Tail(actions), cur, acc)
       ELSE ForwardExpand_parent_depth(Tail(actions), cur,
                [graph |-> create_node(acc.graph, acc.counter, r.new_state,
                                       cur.node_id, action, r.description,
                                       cur.depth, goal_global),
                 counter |-> acc.counter + 1,
                 visited |-> acc.visited \cup {state_str},
                 queue |-> Append(acc.queue,
                                  [node_id |-> acc.counter, state |-> r.new_state,
                                   depth |-> cur.depth + 1])])

\* the for loop over possible_actions of one dequeued node
RECURSIVE ForwardExpand(_, _, _)
ForwardExpand(actions, cur, acc) ==
    IF actions = <<>> THEN acc
    ELSE
    LET action == Head(actions)
        r == apply_action(cur.state, action)
        state_str == state_to_string(r.new_state)
    IN IF ~r.success \/ state_str \in acc.visited
       THEN ForwardExpand(Tail(actions), cur, acc)
       ELSE ForwardExpand(Tail(actions), cur,
                [graph |-> create_node(acc.graph, acc.counter, r.new_state,
                                       cur.node_id, action, r.description,
                                       cur.depth + 1, goal_global),
                 counter |-> acc.counter + 1,
                 visited |-> acc.visited \cup {state_str},
                 queue |-> Append(acc.queue,
                                  [node_id |-> acc.counter, state |-> r.new_state,
                                   depth |-> cur.depth + 1])])

\* breadth_first_search_with_graph up to its while loop
\* with the module global goal_state as it is at the call
ForwardSearchStartWith(start, goal, depth, global) ==
    /\ start_state = start /\ goal_state = goal /\ max_depth = depth
    /\ goal_global = global
    /\ graph_data = create_node(<<>>, 0, start, NoneId, <<>>, "Initial state", 0,
                                global)
    /\ node_counter = 1
    /\ queue = <<[node_id |-> 0, state |-> start, depth |-> 0]>>
    /\ visited_states = {state_to_string(start)}
    /\ solutions = <<>>
    /\ found_solution = FALSE /\ solution_path = <<>>
    /\ pc = "loop"

\* the call main makes, after it has set the global to the goal it passes
ForwardSearchStart(start, goal, depth) ==
    ForwardSearchStartWith(start, goal, depth, goal)

\* one iteration of the while loop
ForwardIteration ==
    /\ impl = "forward" /\ pc = "loop" /\ queue # <<>>
    /\ LET cur == Head(queue) IN
       IF cur.depth >= max_depth
       THEN /\ queue' = Tail(queue)
            /\ UNCHANGED <<graph_data, node_counter, visited_states, solutions>>
       ELSE IF states_equal(cur.state, goal_state)
       THEN /\ solutions' = Append(solutions, reconstruct_path(graph_data, cur.node_id))
            /\ queue' = Tail(queue)
            /\ UNCHANGED <<graph_data, node_counter, visited_states>>
       ELSE LET acc == ForwardExpand(get_all_possible_actions(cur.state), cur,
                          [graph |-> graph_data, counter |-> node_counter,
                           visited |-> visited_states, queue |-> Tail(queue)])
            IN /\ graph_data' = acc.graph
               /\ node_counter' = acc.counter
               /\ visited_states' = acc.visited
               /\ queue' = acc.queue
               /\ UNCHANGED solutions
    /\ UNCHANGED <<impl, runVars, previous, start_state, goal_state, max_depth, goal_global,
                   found_solution, solution_path, pc>>

\* the queue is empty: return solutions
ForwardReturn ==
    /\ impl = "forward" /\ pc = "loop" /\ queue = <<>>
    /\ pc' = "done"
    /\ UNCHANGED <<impl, runVars, previous, start_state, goal_state, max_depth, goal_global,
                   graph_data, node_counter, visited_states, queue, solutions,
                   found_solution, solution_path>>

-----------------------------------------------------------------------------
(* arbre_graph_json_inverse.py: ReverseGraphSearchJSON *)

\* create_node of the reverse search; initial is the global initial_state
create_node_inverse(graph, counter, state, parent_id, action, description, depth, initial) ==
    LET node == [id |-> counter, parent |-> parent_id, children |-> <<>>,
                 states |-> state,
                 is_initial |-> states_equal(state, initial),
                 reverse_action |-> action, description |-> description,
                 depth |-> depth, state_string |-> state_to_string(state)]
        added == Append(graph, node)
        p == IF parent_id = NoneId THEN 0 ELSE FindNode(added, parent_id)
    IN IF p = 0 THEN added
       ELSE [added EXCEPT ![p].children = Append(@, counter)]

\* get_path_to_node: the nodes from node_id up to the root
RECURSIVE get_path_to_node(_, _)
get_path_to_node(graph, node_id) ==
    IF node_id = NoneId THEN <<>>
    ELSE LET i == FindNode(graph, node_id) IN
         <<graph[i]>> \o get_path_to_node(graph, graph[i].parent)

\* a for loop that puts the new entries at the head of the queue, so that the
\* search runs depth first
RECURSIVE InverseExpand_lifo(_, _, _, _)
InverseExpand_lifo(actions, cur, cur_id, acc) ==
    IF actions = <<>> THEN acc
    ELSE
    LET action == Head(actions)
        r == apply_reverse_action(cur.state, action)
        new_state_string == state_to_string(r.new_state)
    IN IF r.success /\ new_state_string \notin acc.visited
       THEN InverseExpand_lifo(Tail(actions), cur, cur_id,
                [visited |-> acc.visited \cup {new_state_string},
                 queue |-> <<[state |-> r.new_state, parent_id |-> cur_id,
                              action |-> action, description |-> r.description,
                              depth |-> cur.depth + 1]>> \o acc.queue])
       ELSE InverseExpand_lifo(Tail(actions), cur, cur_id, acc)

\* the for loop over possible_actions of one dequeued state
RECURSIVE InverseExpand(_, _, _, _)
InverseExpand(actions, cur, cur_id, acc) ==
    IF actions = <<>> THEN acc
    ELSE
    LET action == Head(actions)
        r == apply_reverse_action(cur.state, action)
        new_state_string == state_to_string(r.new_state)
    IN IF r.success /\ new_state_string \notin acc.visited
       THEN InverseExpand(Tail(actions), cur, cur_id,
                [visited |-> acc.visited \cup {new_state_string},
                 queue |-> Append(acc.queue,
                                  [state |-> r.new_state, parent_id |-> cur_id,
                                   action |-> action, description |-> r.description,
                                   depth |-> cur.depth + 1])])
       ELSE InverseExpand(Tail(actions), cur, cur_id, acc)

\* breadth_first_reverse_search(goal, target_initial, depth) up to its loop;
\* start_state holds target_initial_state, which the call stores in the
\* module global initial_state
InverseSearchStart(start, goal, depth) ==
    /\ start_state = start /\ goal_state = goal /\ max_depth = depth
    /\ goal_global = start
    /\ graph_data = <<>>
    /\ node_counter = 0
    /\ queue = <<[state |-> goal, parent_id |-> NoneId, action |-> <<>>,
                  description |-> "", depth |-> 0]>>
    /\ visited_states = {state_to_string(goal)}
    /\ solutions = <<>>
    /\ found_solution = FALSE /\ solution_path = <<>>
    /\ pc = "loop"

\* one iteration of the while loop
InverseIteration ==
    /\ impl = "inverse" /\ pc = "loop" /\ queue # <<>> /\ ~found_solution
    /\ LET cur == Head(queue)
           graph == create_node_inverse(graph_data, node_counter, cur.state,
                        cur.parent_id, cur.action, cur.description, cur.depth,
                        goal_global)
           current_node == graph[Len(graph)]
       IN /\ graph_data' = graph
          /\ node_counter' = node_counter + 1
          /\ IF current_node.is_initial
             THEN /\ found_solution' = TRUE
                  /\ solution_path' = get_path_to_node(graph, current_node.id)
                  /\ queue' = Tail(queue)
                  /\ UNCHANGED visited_states
             ELSE IF cur.depth >= max_depth
             THEN /\ queue' = Tail(queue)
                  /\ UNCHANGED <<visited_states, found_solution, solution_path>>
             ELSE LET acc == InverseExpand(
                                get_all_possible_reverse_actions(cur.state), cur,
                                current_node.id,
                                [visited |-> visited_states, queue |-> Tail(queue)])
                  IN /\ visited_states' = acc.visited
                     /\ queue' = acc.queue
                     /\ UNCHANGED <<found_solution, solution_path>>
    /\ UNCHANGED <<impl, runVars, previous, start_state, goal_state, max_depth, goal_global,
                   solutions, pc>>

\* a loop that ends only on a solution
InverseReturn_only_when_found ==
    /\ impl = "inverse" /\ pc = "loop" /\ found_solution
    /\ pc' = "done"
    /\ UNCHANGED <<impl, runVars, previous, start_state, goal_state, max_depth, goal_global,
                   graph_data, node_counter, visited_states, queue, solutions,
                   found_solution, solution_path>>

\* the loop has ended: return (found_solution, solution_path, total_nodes)
InverseReturn ==
    /\ impl = "inverse" /\ pc = "loop" /\ (queue = <<>> \/ found_solution)
    /\ pc' = "done"
    /\ UNCHANGED <<impl, runVars, previous, start_state, goal_state, max_depth, goal_global,
                   graph_data, node_counter, visited_states, queue, solutions,
                   found_solution, solution_path>>

-----------------------------------------------------------------------------
(* find_all_winning_paths.py: AllPathsReverseSearchJSON *)

state_to_string_all(state) == state_to_string_exh(state)

states_equal_all(state1, state2) == states_equal_exh(state1, state2)

\* create_node: the arena after the call; the node's id is its index in the
\* arena, and the parent is found by its index
create_node_all(graph, state, parent_id, action, description, depth) ==
    LET node_id == Len(graph)
        node == [id |-> node_id, parent |-> parent_id, children |-> <<>>,
                 states |-> state, action |-> action,
                 description |-> description, depth |-> depth,
                 is_initial |-> FALSE]
        linked == IF parent_id # NoneId
                  THEN [graph EXCEPT ![parent_id + 1].children = Append(@, node_id)]
                  ELSE graph
    IN Append(linked, node)

\* get_path_to_node: {id, description, depth, action} from node_id up to the
\* root
RECURSIVE get_path_to_node_all(_, _)
get_path_to_node_all(graph, node_id) ==
    IF node_id = NoneId THEN <<>>
    ELSE LET node == graph[node_id + 1] IN
         <<[id |-> node.id, description |-> node.description,
            depth |-> node.depth, action |-> node.action]>>
         \o get_path_to_node_all(graph, node.parent)

\* the for loop over possible_actions of one dequeued state
RECURSIVE AllPathsExpand(_, _, _, _)
AllPathsExpand(actions, cur, cur_id, acc) ==
    IF actions = <<>> THEN acc
    ELSE
    LET action == Head(actions)
        r == apply_reverse_action_all(cur.state, action)
        state_depth_key == state_to_string_all(r.new_state) \o "_"
                           \o ToString(cur.depth + 1)
    IN IF r.success /\ state_depth_key \notin acc.visited
       THEN AllPathsExpand(Tail(actions), cur, cur_id,
                [visited |-> acc.visited \cup {state_depth_key},
                 queue |-> Append(acc.queue,
                                  [state |-> r.new_state, parent_id |-> cur_id,
                                   action |-> action, description |-> r.description,
                                   depth |-> cur.depth + 1])])
       ELSE AllPathsExpand(Tail(actions), cur, cur_id, acc)

\* breadth_first_all_paths_search(goal, target_initial, depth) up to its loop
AllPathsSearchStart(start, goal, depth) ==
    /\ start_state = start /\ goal_state = goal /\ max_depth = depth
    /\ goal_global = <<>>
    /\ graph_data = create_node_all(<<>>, goal, NoneId, <<>>, "", 0)
    /\ node_counter = 0
    /\ queue = <<[state |-> goal, parent_id |-> NoneId, action |-> <<>>,
                  description |-> "", depth |-> 0]>>
    /\ visited_states = {}
    /\ solutions = <<>>
    /\ found_solution = FALSE /\ solution_path = <<>>
    /\ pc = "loop"

\* one iteration of the while loop; node_counter is the local node_count
AllPathsIteration ==
    /\ impl = "all_paths" /\ pc = "loop" /\ queue # <<>>
    /\ LET cur == Head(queue)
           created == create_node_all(graph_data, cur.state, cur.parent_id,
                                      cur.action, cur.description, cur.depth)
           current_id == Len(created) - 1
           is_solution == states_equal_all(cur.state, start_state)
           graph == IF is_solution
                    THEN [created EXCEPT ![current_id + 1].is_initial = TRUE]
                    ELSE created
       IN /\ graph_data' = graph
          /\ node_counter' = node_counter + 1
          /\ solutions' = IF is_solution
                          THEN Append(solutions,
                                      [node_id |-> current_id, depth |-> cur.depth,
                                       path |-> get_path_to_node_all(graph, current_id)])
                          ELSE solutions
          /\ IF cur.depth >= max_depth
             THEN /\ queue' = Tail(queue)
                  /\ UNCHANGED visited_states
             ELSE LET acc == AllPathsExpand(
                                get_all_possible_reverse_actions_all(cur.state),
                                cur, current_id,
                                [visited |-> visited_states, queue |-> Tail(queue)])
                  IN /\ visited_states' = acc.visited
                     /\ queue' = acc.queue
    /\ UNCHANGED <<impl, runVars, previous, start_state, goal_state, max_depth, goal_global,
                   found_solution, solution_path, pc>>

\* the queue is empty: return (all_solutions, total_nodes)
AllPathsReturn ==
    /\ impl = "all_paths" /\ pc = "loop" /\ queue = <<>>
    /\ pc' = "done"
    /\ UNCHANGED <<impl, runVars, previous, start_state, goal_state, max_depth, goal_global,
                   graph_data, node_counter, visited_states, queue, solutions,
                   found_solution, solution_path>>

-----------------------------------------------------------------------------
(* exhaustive_all_paths.py: ExhaustivePathSearchJSON *)

path_to_string(path_actions) == Join(path_actions, " -> ")

\* the search object's fields after __init__ and after the reset at the top
\* of exhaustive_path_search
ExhaustiveFields ==
    [all_solutions |-> <<>>, unique_paths |-> {}, nodes_explored |-> 0]

\* the target branch of _dfs_search: the path is recorded unless its string
\* is already known
RecordSolution(self, path_actions, depth) ==
    LET path_string == path_to_string(path_actions) IN
    IF path_string \notin self.unique_paths
    THEN [self EXCEPT
            !.unique_paths = @ \cup {path_string},
            !.all_solutions = Append(@,
                [depth |-> depth, steps_count |-> Len(path_actions),
                 action_sequence |-> path_actions,
                 path_string |-> path_string])]
    ELSE self

\* _dfs_search and its for loop over possible_actions; self holds the fields
\* of the search object and is returned as the call leaves them
RECURSIVE dfs_search(_, _, _, _, _, _)
RECURSIVE DfsLoop(_, _, _, _, _, _, _)
dfs_search(current_state, target_state, path_actions, depth, maxd, self) ==
    LET counted == [self EXCEPT !.nodes_explored = @ + 1] IN
    IF states_equal_exh(current_state, target_state)
    THEN RecordSolution(counted, path_actions, depth)
    ELSE IF depth >= maxd THEN counted
    ELSE DfsLoop(get_all_possible_reverse_actions_exh(current_state),
                 current_state, target_state, path_actions, depth, maxd, counted)

DfsLoop(actions, current_state, target_state, path_actions, depth, maxd, self) ==
    IF actions = <<>> THEN self
    ELSE
    LET r == apply_reverse_action_exh(current_state, Head(actions))
        after == IF r.success
                 THEN dfs_search(r.new_state, target_state,
                                 Append(path_actions, r.description),
                                 depth + 1, maxd, self)
                 ELSE self
    \* the recursive call has returned before the loop goes on: its result
    \* is evaluated here (nodes_explored never decreases)
    IN IF after.nodes_explored >= self.nodes_explored
       THEN DfsLoop(Tail(actions), current_state, target_state, path_actions,
                    depth, maxd, after)
       ELSE self

\* exhaustive_path_search(goal_state, target_initial_state, max_depth): the
\* fields of the search object when the call returns
exhaustive_path_search(goal, target_initial_state, maxd) ==
    dfs_search(goal, target_initial_state, <<>>, 0, maxd, ExhaustiveFields)

\* The same recursion one call at a time.  queue is the stack of the calls
\* of _dfs_search still to be made, the next one first; a call is
\* (current_state, path_actions, depth), and `taken` lists the actions whose
\* descriptions path_actions holds.  solutions, visited_states and
\* node_counter are all_solutions, unique_paths and nodes_explored.
RECURSIVE DfsCalls(_, _)
DfsCalls(actions, call) ==
    IF actions = <<>> THEN <<>>
    ELSE
    LET r == apply_reverse_action_exh(call.state, Head(actions)) IN
    (IF r.success
     THEN <<[state |-> r.new_state,
             path_actions |-> Append(call.path_actions, r.description),
             taken |-> Append(call.taken, Head(actions)),
             depth |-> call.depth + 1]>>
     ELSE <<>>) \o DfsCalls(Tail(actions), call)

\* a call that goes on past the target state
DfsCallees_past_target(call) ==
    IF call.depth >= max_depth THEN <<>>
    ELSE DfsCalls(get_all_possible_reverse_actions_exh(call.state), call)

\* the calls one call of _dfs_search makes: none when its state is the
\* target (return after recording) or its depth is max_depth
DfsCallees(call) ==
    IF states_equal_exh(call.state, start_state) THEN <<>>
    ELSE IF call.depth >= max_depth THEN <<>>
    ELSE DfsCalls(get_all_possible_reverse_actions_exh(call.state), call)

\* exhaustive_path_search up to its call of _dfs_search
DfsSearchStart(goal, target_initial_state, depth) ==
    /\ start_state = target_initial_state /\ goal_state = goal
    /\ max_depth = depth
    /\ goal_global = <<>>
    /\ graph_data = <<>>
    /\ node_counter = 0
    /\ visited_states = {}
    /\ solutions = <<>>
    /\ queue = <<[state |-> goal, path_actions |-> <<>>, taken |-> <<>>,
                  depth |-> 0]>>
    /\ found_solution = FALSE /\ solution_path = <<>>
    /\ pc = "loop"

\* one call of _dfs_search up to its recursive calls
DfsCall ==
    /\ impl = "exhaustive" /\ pc = "loop" /\ queue # <<>>
    /\ LET call == Head(queue)
           path_string == path_to_string(call.path_actions)
       IN /\ node_counter' = node_counter + 1
          /\ IF states_equal_exh(call.state, start_state)
             THEN IF path_string \notin visited_states
                  THEN /\ visited_states' = visited_states \cup {path_string}
                       /\ solutions' = Append(solutions,
                             [depth |-> call.depth,
                              steps_count |-> Len(call.path_actions),
                              action_sequence |-> call.path_actions,
                              path_string |-> path_string,
                              taken |-> call.taken])
                  ELSE UNCHANGED <<visited_states, solutions>>
             ELSE UNCHANGED <<visited_states, solutions>>
          /\ queue' = DfsCallees(call) \o Tail(queue)
    /\ UNCHANGED <<impl, runVars, previous, start_state, goal_state, max_depth, goal_global,
                   graph_data, found_solution, solution_path, pc>>

\* the outermost call has returned: exhaustive_path_search returns
\* all_solutions
DfsReturn ==
    /\ impl = "exhaustive" /\ pc = "loop" /\ queue = <<>>
    /\ pc' = "done"
    /\ UNCHANGED <<impl, runVars, previous, start_state, goal_state, max_depth, goal_global,
                   graph_data, node_counter, visited_states, queue, solutions,
                   found_solution, solution_path>>

-----------------------------------------------------------------------------
(* The searches: one call of a bounded breadth-first search per run *)

Table0 == <<GroundId, GroundId>>

\* Scenario A of the specification
ScenarioA_start ==
    MakeState(Table0, <<"CUBE", "CUBE">>, <<GroundId, 1>>, <<FALSE, FALSE>>)

ScenarioA_goal ==
    LET s == MakeState(Table0, <<"CUBE", "CUBE">>, <<GroundId, GroundId>>, <<FALSE, FALSE>>)
    IN <<s[1], s[3], s[2]>>

\* Scenario B of the specification: cylinder 3 and ring 4
ScenarioB_start ==
    << [ID |-> 0, NOM |-> "Table", FORME |-> "TABLE", SUR_ID |-> 0, COUCHE |-> FALSE],
       [ID |-> 3, NOM |-> "Cylinder", FORME |-> "CYLINDRE", SUR_ID |-> 0, COUCHE |-> FALSE],
       [ID |-> 4, NOM |-> "Ring", FORME |-> "DONUT_SAUCISSE", SUR_ID |-> 0, COUCHE |-> FALSE] >>

ScenarioB_goal ==
    << [ID |-> 0, NOM |-> "Table", FORME |-> "TABLE", SUR_ID |-> 0, COUCHE |-> FALSE],
       [ID |-> 4, NOM |-> "Ring", FORME |-> "DONUT_SAUCISSE", SUR_ID |-> 0, COUCHE |-> TRUE],
       [ID |-> 3, NOM |-> "Cylinder", FORME |-> "CYLINDRE", SUR_ID |-> 4, COUCHE |-> FALSE] >>

\* the shape lists of the searches: two cubes (Scenario A), a cylinder and a
\* ring (Scenario B), three cubes (Scenario C)
SearchShapeLists ==
    { <<"CUBE", "CUBE">>, <<"CYLINDRE", "DONUT_SAUCISSE">>, <<"CUBE", "CUBE", "CUBE">> }

\* the table of the data sets of the repository: id 25
DataTable == <<DataTableId, DataTableId>>

\* two cubes on the table of the data sets
DataPairs ==
    StatesOf(DataTable, <<"CUBE", "CUBE">>) \X StatesOf(DataTable, <<"CUBE", "CUBE">>)

\* (start, goal): two well-formed states over the same objects
SearchPairs ==
    UNION { StatesOf(Table0, shape) \X StatesOf(Table0, shape) :
                shape \in SearchShapeLists }
    \cup { <<ScenarioA_start, ScenarioA_goal>>, <<ScenarioB_start, ScenarioB_goal>> }
    \cup DataPairs

\* the pairs of the all-paths search: two objects
AllPathsShapeLists == { <<"CUBE", "CUBE">>, <<"CYLINDRE", "DONUT_SAUCISSE">> }

AllPathsPairs ==
    UNION { StatesOf(Table0, shape) \X StatesOf(Table0, shape) :
                shape \in AllPathsShapeLists }
    \cup { <<ScenarioA_start, ScenarioA_goal>>, <<ScenarioB_start, ScenarioB_goal>> }

\* the state s with the display name nom on every object but the table
Renamed(s, nom) ==
    [i \in 1..Len(s) |->
        IF s[i].FORME = "TABLE" THEN s[i] ELSE [s[i] EXCEPT !.NOM = nom]]

\* the pairs of the exhaustive search (target, root): those of the all-paths
\* search, two cubes on the table of the data sets, and two objects that
\* carry the same display name
DfsPairs ==
    AllPathsPairs
    \cup DataPairs
    \cup { <<Renamed(p[1], "Piece"), Renamed(p[2], "Piece")>> :
             p \in StatesOf(Table0, <<"CYLINDRE", "DONUT_SAUCISSE">>)
                     \X StatesOf(Table0, <<"CYLINDRE", "DONUT_SAUCISSE">>) }

InitDFS ==
    /\ impl = "exhaustive"
    /\ objects = <<>>
    /\ last = [action |-> NoAction, success |-> FALSE]
    /\ previous = <<>>
    /\ \E depth \in 1..MaxDepth, p \in DfsPairs :
          DfsSearchStart(p[2], p[1], depth)

NextDFS == DfsCall \/ DfsReturn

SpecDFS == InitDFS /\ [][NextDFS]_vars

InitBFS ==
    /\ impl \in {"forward", "inverse", "all_paths"}
    /\ objects = <<>>
    /\ last = [action |-> NoAction, success |-> FALSE]
    /\ previous = <<>>
    /\ \E depth \in 1..MaxDepth :
          IF impl = "all_paths"
          THEN \E p \in AllPathsPairs : AllPathsSearchStart(p[1], p[2], depth)
          ELSE \E p \in SearchPairs :
                  IF impl = "forward"
                  THEN \/ ForwardSearchStart(p[1], p[2], depth)
                       \/ ForwardSearchStartWith(p[1], p[2], depth, NoGlobal)
                  ELSE InverseSearchStart(p[1], p[2], depth)

NextBFS ==
    \/ ForwardIteration \/ ForwardReturn
    \/ InverseIteration \/ InverseReturn
    \/ AllPathsIteration \/ AllPathsReturn

SpecBFS == InitBFS /\ [][NextBFS]_vars

-----------------------------------------------------------------------------
(* The four searches on any finite state, under the scheduling of a         *)
(* sequential program: a call that can take a step takes it                 *)

\* states whose support relation is not well formed: an object on itself
\* (as object 22 of the final data set), an object on an id no object has,
\* two objects on each other
IllFormedStates ==
    { MakeState(Table0, <<"CUBE", "CUBE">>, sur, <<FALSE, FALSE>>) :
        sur \in { <<1, GroundId>>, <<AbsentId, GroundId>>, <<2, 1>> } }

\* (start, goal) with an ill-formed start or an ill-formed goal
IllFormedPairs ==
    LET wf == StatesOf(Table0, <<"CUBE", "CUBE">>) IN
    (IllFormedStates \X wf) \cup (wf \X IllFormedStates)

SearchStart(kind, start, goal, depth) ==
    CASE kind = "forward" -> ForwardSearchStart(start, goal, depth)
      [] kind = "inverse" -> InverseSearchStart(start, goal, depth)
      [] kind = "all_paths" -> AllPathsSearchStart(start, goal, depth)
      [] kind = "exhaustive" -> DfsSearchStart(goal, start, depth)

InitSearch ==
    \/ InitBFS
    \/ InitDFS
    \/ /\ impl \in {"forward", "inverse", "all_paths", "exhaustive"}
       /\ objects = <<>>
       /\ last = [action |-> NoAction, success |-> FALSE]
       /\ previous = <<>>
       /\ \E depth \in 1..MaxDepth, p \in IllFormedPairs :
             SearchStart(impl, p[1], p[2], depth)

NextSearch == NextBFS \/ NextDFS

\* the condition of the while loops (and, for the exhaustive search, a call
\* of _dfs_search still to be made): what enables an iteration
LoopCondition ==
    /\ pc = "loop" /\ queue # <<>>
    /\ ~(impl = "inverse" /\ found_solution)

Iterations == ForwardIteration \/ InverseIteration \/ AllPathsIteration \/ DfsCall

Returns == ForwardReturn \/ InverseReturn \/ AllPathsReturn \/ DfsReturn

\* A call runs in one thread that nothing suspends: while it can take a
\* step it takes one.  That is weak fairness of the returns and of the
\* iterations; for the iterations it is written out, with LoopCondition in
\* the place of ENABLED <<Iterations>>_vars (an iteration only needs its
\* loop condition, and it changes queue or node_counter).
SearchFairness ==
    /\ WF_vars(Returns)
    /\ ([]<>~LoopCondition \/ []<><<Iterations>>_vars)

SpecSearch == InitSearch /\ [][NextSearch]_vars /\ SearchFairness

-----------------------------------------------------------------------------
(* A second call of a search with the arguments of the first: on the       *)
(* search object the first call used, or on a newly constructed one        *)

\* what a call returned and what it left in the arena of its object
CallResult(object) ==
    [object |-> object, solutions |-> solutions,
     found_solution |-> found_solution, solution_path |-> solution_path,
     graph_data |-> graph_data]

\* breadth_first_search_with_graph again on the same GraphSearchJSON:
\* graph_data, node_counter and visited_states are set by __init__ only
ForwardCallAgain ==
    /\ impl = "forward" /\ pc = "done" /\ previous = <<>>
    /\ previous' = CallResult("same")
    /\ graph_data' = create_node(graph_data, node_counter, start_state, NoneId,
                                 <<>>, "Initial state", 0, goal_global)
    /\ node_counter' = node_counter + 1
    /\ queue' = <<[node_id |-> node_counter, state |-> start_state, depth |-> 0]>>
    /\ visited_states' = visited_states \cup {state_to_string(start_state)}
    /\ solutions' = <<>>
    /\ pc' = "loop"
    /\ UNCHANGED <<impl, runVars, start_state, goal_state, max_depth, goal_global,
                   found_solution, solution_path>>

\* breadth_first_reverse_search again on the same ReverseGraphSearchJSON:
\* graph_data, node_counter and visited_states are set by __init__ only
InverseCallAgain ==
    /\ impl = "inverse" /\ pc = "done" /\ previous = <<>>
    /\ previous' = CallResult("same")
    /\ goal_global' = start_state
    /\ queue' = <<[state |-> goal_state, parent_id |-> NoneId, action |-> <<>>,
                   description |-> "", depth |-> 0]>>
    /\ visited_states' = visited_states \cup {state_to_string(goal_state)}
    /\ found_solution' = FALSE /\ solution_path' = <<>>
    /\ pc' = "loop"
    /\ UNCHANGED <<impl, runVars, start_state, goal_state, max_depth,
                   graph_data, node_counter, solutions>>

\* breadth_first_all_paths_search again on the same
\* AllPathsReverseSearchJSON: the call resets the three fields
AllPathsCallAgain ==
    /\ impl = "all_paths" /\ pc = "done" /\ previous = <<>>
    /\ previous' = CallResult("same")
    /\ graph_data' = create_node_all(<<>>, goal_state, NoneId, <<>>, "", 0)
    /\ visited_states' = {}
    /\ solutions' = <<>>
    /\ queue' = <<[state |-> goal_state, parent_id |-> NoneId, action |-> <<>>,
                   description |-> "", depth |-> 0]>>
    /\ node_counter' = 0
    /\ pc' = "loop"
    /\ UNCHANGED <<impl, runVars, start_state, goal_state, max_depth, goal_global,
                   found_solution, solution_path>>

\* exhaustive_path_search again on the same ExhaustivePathSearchJSON: the
\* call resets the three fields
DfsCallAgain ==
    /\ impl = "exhaustive" /\ pc = "done" /\ previous = <<>>
    /\ previous' = CallResult("same")
    /\ solutions' = <<>>
    /\ visited_states' = {}
    /\ node_counter' = 0
    /\ queue' = <<[state |-> goal_state, path_actions |-> <<>>, taken |-> <<>>,
                   depth |-> 0]>>
    /\ pc' = "loop"
    /\ UNCHANGED <<impl, runVars, start_state, goal_state, max_depth, goal_global,
                   graph_data, found_solution, solution_path>>

\* the same call on a newly constructed object: __init__, then the call's
\* lines up to its loop; the module globals are those the first call left
CallOnFreshObject ==
    /\ pc = "done" /\ previous = <<>>
    /\ previous' = CallResult("fresh")
    /\ graph_data' =
         CASE impl = "forward" ->
                create_node(<<>>, 0, start_state, NoneId, <<>>, "Initial state",
                            0, goal_global)
           [] impl = "all_paths" ->
                create_node_all(<<>>, goal_state, NoneId, <<>>, "", 0)
           [] OTHER -> <<>>
    /\ node_counter' = IF impl = "forward" THEN 1 ELSE 0
    /\ visited_states' =
         CASE impl = "forward" -> {state_to_string(start_state)}
           [] impl = "inverse" -> {state_to_string(goal_state)}
           [] OTHER -> {}
    /\ queue' =
         CASE impl = "forward" ->
                <<[node_id |-> 0, state |-> start_state, depth |-> 0]>>
           [] impl = "exhaustive" ->
                <<[state |-> goal_state, path_actions |-> <<>>, taken |-> <<>>,
                   depth |-> 0]>>
           [] OTHER ->
                <<[state |-> goal_state, parent_id |-> NoneId, action |-> <<>>,
                   description |-> "", depth |-> 0]>>
    /\ solutions' = <<>>
    /\ found_solution' = FALSE /\ solution_path' = <<>>
    /\ pc' = "loop"
    /\ UNCHANGED <<impl, runVars, start_state, goal_state, max_depth, goal_global>>

InitRepeat == InitBFS \/ InitDFS

NextRepeat ==
    \/ NextBFS
    \/ NextDFS
    \/ ForwardCallAgain
    \/ InverseCallAgain
    \/ AllPathsCallAgain
    \/ DfsCallAgain
    \/ CallOnFreshObject

SpecRepeat == InitRepeat /\ [][NextRepeat]_vars

-----------------------------------------------------------------------------
(* The rules of the specification, stated on a state without the code's     *)
(* predicates                                                               *)

IdsOf(s) == {s[i].ID : i \in 1..Len(s)}

Obj(id, s) == s[CHOOSE i \in 1..Len(s) : s[i].ID = id]

NothingRestsOn(id, s) == \A i \in 1..Len(s) : s[i].SUR_ID # id

\* isMovable(o): o is not the table and no object rests on o
IsMovableRule(o, s) ==
    o \in IdsOf(s) /\ Obj(o, s).FORME # "TABLE" /\ NothingRestsOn(o, s)

\* canLieDown(o): isMovable(o) and o is not a cube
CanLieDownRule(o, s) == IsMovableRule(o, s) /\ Obj(o, s).FORME # "CUBE"

\* canReceive(t): the table, a standing cylinder, a lying ring, an empty cube
CanReceiveRule(t, s) ==
    /\ t \in IdsOf(s)
    /\ \/ Obj(t, s).FORME = "TABLE"
       \/ Obj(t, s).FORME = "CYLINDRE" /\ ~Obj(t, s).COUCHE
       \/ Obj(t, s).FORME = "DONUT_SAUCISSE" /\ Obj(t, s).COUCHE
       \/ Obj(t, s).FORME = "CUBE" /\ NothingRestsOn(t, s)

\* the reverse generator of the running file (the forward file has none)
ReverseActions(s) ==
    IF impl = "inverse" THEN get_all_possible_reverse_actions(s)
    ELSE IF impl = "exhaustive" THEN get_all_possible_reverse_actions_exh(s)
    ELSE <<>>

-----------------------------------------------------------------------------
(* Calls of the transition functions with any action, generated or not *)

\* a copy that is the very list it was given
shallow_copy(ref) == ref

\* copy.deepcopy(objects_data): a new list, bound to new_state
deepcopy(ref) == "new_state"

\* the two lists of a call once it has returned: the list the caller passed
\* (objects_data) and the list returned (new_state).  The function copies
\* its argument first and writes only to the copy; res is the outcome of
\* its body on the value copied.
CallOnCopy(objects_data, res) ==
    LET new_ref == deepcopy("objects_data")
        heap0 == [r \in {"objects_data", new_ref} |-> objects_data]
        heap1 == [heap0 EXCEPT ![new_ref] = res.new_state]
    IN [input_after |-> heap1["objects_data"],
        new_state |-> heap1[new_ref],
        success |-> res.success,
        raised |-> res.raised]

\* the actions a caller may pass: of the kinds the file knows, on the ids of
\* the state and on an id no object has
AnyActions(s, moveKind, flagKinds) ==
    LET ids == IdsOf(s) \cup {AbsentId} IN
    { <<moveKind, p[1], p[2]>> : p \in ids \X ids }
    \cup { <<k, o>> : k \in flagKinds, o \in ids }

\* one call: the caller keeps the returned state when the call succeeded
Call(calls) ==
    \E x \in calls :
        /\ objects' = IF x.out.success THEN x.out.new_state ELSE objects
        /\ last' = [action |-> x.action, success |-> x.out.success,
                    raised |-> x.out.raised, input |-> objects,
                    input_after |-> x.out.input_after,
                    new_state |-> x.out.new_state]

ForwardCall ==
    /\ impl = "forward"
    /\ Call({ [action |-> a,
               out |-> CallOnCopy(objects, apply_action(objects, a))] :
                a \in AnyActions(objects, "move", {"lay_down"}) })
    /\ UNCHANGED <<impl, searchVars>>

InverseCall ==
    /\ impl = "inverse"
    /\ Call({ [action |-> a,
               out |-> CallOnCopy(objects, apply_reverse_action(objects, a))] :
                a \in AnyActions(objects, "move_to", {"stand_up", "lay_down"}) })
    /\ UNCHANGED <<impl, searchVars>>

ExhaustiveCall ==
    /\ impl = "exhaustive"
    /\ Call({ [action |-> a,
               out |-> CallOnCopy(objects, apply_reverse_action_exh(objects, a))] :
                a \in AnyActions(objects, "move_to", {"stand_up", "lay_down"}) })
    /\ UNCHANGED <<impl, searchVars>>

\* the objects of the states the calls start from: every pair of the shapes
\* the files test
CallShapeLists ==
    { <<"CUBE", "CUBE">>, <<"CUBE", "CYLINDRE">>, <<"CUBE", "DONUT_SAUCISSE">>,
      <<"CYLINDRE", "DONUT_SAUCISSE">>, <<"CUBE", "SPHERE">> }

CallStates ==
    UNION { StatesOf(tc, shape) : tc \in TableConfigs, shape \in CallShapeLists }

InitCall ==
    /\ impl \in Impls
    /\ objects \in CallStates
    /\ last = [action |-> NoAction, success |-> FALSE]
    /\ SearchIdle

NextCall == ForwardCall \/ InverseCall \/ ExhaustiveCall

SpecCall == InitCall /\ [][NextCall]_vars

-----------------------------------------------------------------------------
(* Calls of the forward and the reverse transition function one after the   *)
(* other, each on the state the call before it returned                     *)

\* the call made before the last one, without the call before it
Earlier(l) ==
    IF l.action = NoAction THEN [action |-> NoAction, success |-> FALSE]
    ELSE [impl |-> l.impl, action |-> l.action, success |-> l.success,
          input |-> l.input]

\* the actions a caller passes: of the kinds the file knows, any object of
\* the state onto any id of the state
PairActions(s, moveKind, flagKinds) ==
    LET objs == { s[i].ID : i \in { j \in 1..Len(s) : s[j].FORME # "TABLE" } } IN
    { <<moveKind, p[1], p[2]>> : p \in objs \X IdsOf(s) }
    \cup { <<k, o>> : k \in flagKinds, o \in objs }

\* one call; the caller keeps the returned state when the call succeeded and
\* chooses the file of its next call
PairCall(calls) ==
    \E x \in calls :
        /\ objects' = IF x.res.success THEN x.res.new_state ELSE objects
        /\ last' = [impl |-> impl, action |-> x.action,
                    success |-> x.res.success, input |-> objects,
                    new_state |-> x.res.new_state, prev |-> Earlier(last)]
        /\ impl' \in {"forward", "inverse"}

PairForwardCall ==
    /\ impl = "forward"
    /\ PairCall({ [action |-> a, res |-> apply_action(objects, a)] :
                    a \in PairActions(objects, "move", {"lay_down"}) })
    /\ UNCHANGED searchVars

PairInverseCall ==
    /\ impl = "inverse"
    /\ PairCall({ [action |-> a, res |-> apply_reverse_action(objects, a)] :
                    a \in PairActions(objects, "move_to", {"stand_up", "lay_down"}) })
    /\ UNCHANGED searchVars

InitPair ==
    /\ impl \in {"forward", "inverse"}
    /\ objects \in CallStates
    /\ last = [action |-> NoAction, success |-> FALSE]
    /\ SearchIdle

NextPair == PairForwardCall \/ PairInverseCall

SpecPair == InitPair /\ [][NextPair]_vars

-----------------------------------------------------------------------------
(* Nodes and the lists they store: create_node keeps copy.deepcopy(state),  *)
(* and the search goes on applying actions to the state it gave             *)

\* the nodes created after the root
MaxNodes == 1

\* the list node['states'] of the i-th node is bound to: the copy
\* create_node made, a list of the node's own unless the copy is the very
\* list it was given
NodeListNames == <<"states of node 0", "states of node 1", "states of node 2">>

StoredList(i) ==
    IF deepcopy("objects_data") = "objects_data" THEN "objects_data"
    ELSE NodeListNames[i]

\* the lists of the program once a transition function has returned: the
\* list it was given, the list it returns and the lists the nodes store.
\* The function copies its argument and writes only to the copy.
ListsAfterCall(objects_data, graph, res) ==
    LET new_ref == deepcopy("objects_data")
        refs == {"objects_data", new_ref} \cup { StoredList(i) : i \in 1..Len(graph) }
        stored(r) == CHOOSE i \in 1..Len(graph) : StoredList(i) = r
        heap0 == [r \in refs |->
                    IF r \in {"objects_data", new_ref} THEN objects_data
                    ELSE graph[stored(r)].states]
        heap1 == [heap0 EXCEPT ![new_ref] = res.new_state]
    IN [current |-> IF res.success THEN heap1[new_ref] ELSE heap1["objects_data"],
        graph |-> [i \in 1..Len(graph) |->
                     [graph[i] EXCEPT !.states = heap1[StoredList(i)]]]]

\* create_node on the state the search holds: the root before any action,
\* then a node for a state an action has just returned, the child of the
\* node before it
NodeCreate ==
    /\ Len(graph_data) <= MaxNodes
    /\ graph_data # <<>> =>
          /\ last.action # NoAction /\ last.success
          /\ objects # graph_data[Len(graph_data)].states
    /\ LET parent_id == IF graph_data = <<>> THEN NoneId ELSE Len(graph_data) - 1
           depth == Len(graph_data)
       IN graph_data' =
            IF impl = "forward"
            THEN create_node(graph_data, node_counter, objects, parent_id,
                             last.action, "", depth, goal_global)
            ELSE create_node_all(graph_data, objects, parent_id, last.action,
                                 "", depth)
    /\ node_counter' = node_counter + 1
    /\ UNCHANGED <<impl, runVars, start_state, goal_state, max_depth, goal_global,
                   visited_states, queue, solutions, found_solution,
                   solution_path, pc, previous>>

\* a generated action applied to the state the search holds, after which
\* the search holds the state returned; the root exists by then
NodeStep ==
    /\ graph_data # <<>>
    /\ \E a \in Range(IF impl = "forward" THEN get_all_possible_actions(objects)
                       ELSE get_all_possible_reverse_actions_all(objects)) :
          LET res == IF impl = "forward" THEN apply_action(objects, a)
                     ELSE apply_reverse_action_all(objects, a)
              after == ListsAfterCall(objects, graph_data, res)
          IN /\ objects' = after.current
             /\ graph_data' = after.graph
             /\ last' = [action |-> a, success |-> res.success]
    /\ UNCHANGED <<impl, start_state, goal_state, max_depth, goal_global,
                   node_counter, visited_states, queue, solutions,
                   found_solution, solution_path, pc, previous>>

\* a cylinder and a ring on table 0, two cubes on the table of the data
NodeStates ==
    StatesOf(Table0, <<"CYLINDRE", "DONUT_SAUCISSE">>)
    \cup StatesOf(DataTable, <<"CUBE", "CUBE">>)

InitNode ==
    /\ impl \in {"forward", "all_paths"}
    /\ objects \in NodeStates
    /\ last = [action |-> NoAction, success |-> FALSE]
    /\ SearchIdle

NextNode == NodeCreate \/ NodeStep

SpecNode == InitNode /\ [][NextNode]_vars

-----------------------------------------------------------------------------
(* Claims on the generators and the transition functions (under Spec) *)

\* C1: from a well-formed state, every state reached by generated actions
\* (forward, or either reverse generator with its transition function) has
\* every non-table object's support chain ending at the table, hence an
\* acyclic support relation.
C1_SupportChainsEndAtTable == WellFormed(objects)

\* C1 witness: a generated reverse move has put an object on a non-table
\* object.
C1_Witness ==
    /\ impl = "inverse"
    /\ last.action[1] = "move_to" /\ last.success
    /\ last.action[3] # TableIdOf(objects)
    /\ Obj(last.action[2], objects).SUR_ID = last.action[3]

\* C8: the forward generator returns exactly the moves Move(o, t) with o
\* movable, t # o and t able to receive, and LayDown(o) for every o that can
\* lie down, each once.
C8_ForwardGeneratorExact ==
    LET acts == get_all_possible_actions(objects)
        ids == IdsOf(objects)
        moves == { <<"move", p[1], p[2]>> :
                     p \in { q \in ids \X ids :
                               /\ IsMovableRule(q[1], objects)
                               /\ q[2] # q[1]
                               /\ CanReceiveRule(q[2], objects) } }
        lays == { <<"lay_down", o>> :
                    o \in { x \in ids : CanLieDownRule(x, objects) } }
    IN /\ Range(acts) = moves \cup lays
       /\ Len(acts) = Cardinality(Range(acts))

\* C8 witness: a forward run in a state where the generator emits a move and
\* a lay-down and leaves out a loaded object and a cube's lay-down.
C8_Witness ==
    /\ impl = "forward" /\ last.success
    /\ \E a \in Range(get_all_possible_actions(objects)) : a[1] = "move"
    /\ \E a \in Range(get_all_possible_actions(objects)) : a[1] = "lay_down"
    /\ \E o \in IdsOf(objects) :
          Obj(o, objects).FORME # "TABLE" /\ ~NothingRestsOn(o, objects)
    /\ \E o \in IdsOf(objects) :
          Obj(o, objects).FORME = "CUBE" /\ NothingRestsOn(o, objects)

\* C9: peut_recevoir_deplacement(t) is true exactly for the table, a standing
\* cylinder, a lying ring and a cube nothing rests on; false for any other
\* shape and for an id absent from the state.
C9_CanReceiveExact ==
    \A t \in IdsOf(objects) \cup {AbsentId} :
        peut_recevoir_deplacement(t, objects) <=> CanReceiveRule(t, objects)

\* C9 witness: a forward run has just laid a ring down, which now receives,
\* beside a standing cylinder (receives), an object of another shape (does
\* not) and an absent id (does not).
C9_Witness ==
    /\ impl = "forward" /\ last.action[1] = "lay_down" /\ last.success
    /\ Obj(last.action[2], objects).FORME = "DONUT_SAUCISSE"
    /\ peut_recevoir_deplacement(last.action[2], objects)
    /\ \E t \in IdsOf(objects) :
          /\ Obj(t, objects).FORME = "CYLINDRE" /\ ~Obj(t, objects).COUCHE
          /\ peut_recevoir_deplacement(t, objects)
    /\ \E t \in IdsOf(objects) :
          /\ Obj(t, objects).FORME = "SPHERE"
          /\ ~peut_recevoir_deplacement(t, objects)
    /\ ~peut_recevoir_deplacement(AbsentId, objects)

\* C10: every MoveTo(o, t) a reverse generator emits has a target t that
\* satisfies the forward receive rule in the current state.
C10_ReverseTargetsCanReceive ==
    \A a \in Range(ReverseActions(objects)) :
        a[1] = "move_to" => CanReceiveRule(a[3], objects)

-----------------------------------------------------------------------------
(* Claims on the bounded breadth-first searches (under SpecBFS) *)

\* the states one generated, successful action away from s
Successors(s, mode) ==
    IF mode = "forward"
    THEN { apply_action(s, a).new_state :
             a \in { b \in Range(get_all_possible_actions(s)) :
                       apply_action(s, b).success } }
    ELSE { apply_reverse_action(s, a).new_state :
             a \in { b \in Range(get_all_possible_reverse_actions(s)) :
                       apply_reverse_action(s, b).success } }

\* the depth of the first level, at most bound, that holds a state equal to
\* target; bound + 1 when there is none
RECURSIVE FirstLevel(_, _, _, _, _, _)
FirstLevel(frontier, seen, k, target, mode, bound) ==
    IF \E s \in frontier : states_equal(s, target) THEN k
    ELSE IF k >= bound \/ frontier = {} THEN bound + 1
    ELSE LET next == (UNION { Successors(s, mode) : s \in frontier }) \ seen
         IN FirstLevel(next, seen \cup next, k + 1, target, mode, bound)

\* the root and the target of the search in progress
SearchRoot == IF impl = "forward" THEN start_state ELSE goal_state

SearchTarget == IF impl = "forward" THEN goal_state ELSE start_state

\* the least number of generated actions from the root to the target,
\* max_depth + 1 when more than max_depth are needed
Distance ==
    FirstLevel({SearchRoot}, {SearchRoot}, 0, SearchTarget, impl, max_depth)

\* the search has returned a solution path
Returned ==
    /\ pc = "done"
    /\ \/ impl = "forward" /\ solutions # <<>>
       \/ impl = "inverse" /\ found_solution

\* the numbers of actions of the returned paths
ReturnedLengths ==
    IF impl = "forward" THEN { Len(solutions[i]) : i \in 1..Len(solutions) }
    ELSE { Len(solution_path) - 1 }

\* C2: a bounded breadth-first search returns a solution path if and only
\* if the target is reachable from the root by at most max_depth generated
\* actions, exactly max_depth included.
C2_ReturnsIffWithinBound ==
    (pc = "done" /\ impl \in {"forward", "inverse"})
        => (Returned <=> Distance <= max_depth)

\* C3: a returned path has as many actions as the depth of the first level
\* that holds a state equal to the target, and no explored node of a smaller
\* depth equals the target.
C3_ReturnedPathIsShortest ==
    Returned =>
        \A n \in ReturnedLengths :
            /\ n = Distance
            /\ \A i \in 1..Len(graph_data) :
                  states_equal(graph_data[i].states, SearchTarget)
                      => graph_data[i].depth >= n

\* C3 witness: a search has returned a path of more than one action although
\* the bound allowed a longer one.
C3_Witness ==
    /\ Returned
    /\ \E n \in ReturnedLengths : n > 1 /\ n < max_depth
    /\ Len(graph_data) > 3

\* C4: every step S -> S' of a path returned by the reverse search is the
\* reverse of a forward action: the forward generator emits in S' an action
\* whose application to S' gives S.
C4_ReversePathIsForwardPath ==
    (impl = "inverse" /\ Returned) =>
        \A i \in 1..(Len(solution_path) - 1) :
            LET S == solution_path[i + 1].states
                Sp == solution_path[i].states
            IN \E a \in Range(get_all_possible_actions(Sp)) :
                  /\ apply_action(Sp, a).success
                  /\ states_equal(apply_action(Sp, a).new_state, S)

\* two cubes rest directly on the same third cube
TwoOnOneCube(s) ==
    \E c \in IdsOf(s) :
        /\ Obj(c, s).FORME = "CUBE"
        /\ Cardinality({ o \in IdsOf(s) : o # c /\ Obj(o, s).SUR_ID = c
                                           /\ Obj(o, s).FORME = "CUBE" }) >= 2

\* no cube carries more than one object
NoCubeOverloaded(s) ==
    \A c \in IdsOf(s) :
        Obj(c, s).FORME = "CUBE"
            => Cardinality({ o \in IdsOf(s) : o # c /\ Obj(o, s).SUR_ID = c }) <= 1

\* C5: Scenario C: with a goal in which two cubes rest on the same third
\* cube and a start in which no cube carries more than one object, a search
\* reports no solution, whatever the depth bound.
C5_ScenarioCNoSolution ==
    (/\ pc = "done" /\ impl \in {"forward", "inverse"}
     /\ TwoOnOneCube(goal_state)
     /\ NoCubeOverloaded(start_state)) => ~Returned

\* C6: Scenario A: with a depth bound of at least one action, the forward
\* search returns exactly the one-action path Move(2, 0).
C6_ScenarioAOneMove ==
    (/\ pc = "done" /\ impl = "forward"
     /\ start_state = ScenarioA_start /\ goal_state = ScenarioA_goal)
        => /\ Len(solutions) = 1
           /\ Len(solutions[1]) = 1
           /\ solutions[1][1].action = <<"move", 2, 0>>

\* C7: Scenario B: with a depth bound of at least two actions, the forward
\* search returns the two-action path LayDown(4), Move(3, 4), and no single
\* generated action leads from the start to the goal.
C7_ScenarioBTwoActions ==
    (/\ pc = "done" /\ impl = "forward"
     /\ start_state = ScenarioB_start /\ goal_state = ScenarioB_goal
     /\ max_depth >= 2)
        => /\ Len(solutions) = 1
           /\ Len(solutions[1]) = 2
           /\ solutions[1][1].action = <<"lay_down", 4>>
           /\ solutions[1][2].action = <<"move", 3, 4>>
           /\ \A s \in Successors(start_state, "forward") :
                 ~states_equal(s, goal_state)

-----------------------------------------------------------------------------
(* Claims on the reverse generators and the transition functions (under     *)
(* Spec)                                                                    *)

\* o is on the support chain that starts at t and follows supports up to
\* the table
OnSupportChain(o, t, s) == \E n \in 0..Len(s) : Up(t, n, s) = o

\* C11: a reverse generator emits StandUp(o) only for a lying o and
\* LayDown(o) only for a standing o, o being neither a cube nor the table
\* and carrying nothing; so no reverse step changes the lying flag of a cube
\* or of an object that supports another.
C11_ReverseOrientationGuards ==
    /\ \A a \in Range(ReverseActions(objects)) :
          /\ a[1] = "stand_up" =>
                Obj(a[2], objects).COUCHE /\ CanLieDownRule(a[2], objects)
          /\ a[1] = "lay_down" =>
                ~Obj(a[2], objects).COUCHE /\ CanLieDownRule(a[2], objects)
    /\ (impl # "forward" /\ last.success
        /\ last.action[1] \in {"stand_up", "lay_down"})
          => CanLieDownRule(last.action[2], objects)

\* C12: no reverse generator emits MoveTo(o, t) when o is on the support
\* chain that starts at t.
C12_NoMoveOntoOwnChain ==
    \A a \in Range(ReverseActions(objects)) :
        a[1] = "move_to" => ~OnSupportChain(a[2], a[3], objects)

\* C12 witness: a reverse move has just put an object on another one, so
\* that the lower object is on the chain of the upper one, and the generator
\* emits moves in the new state.
C12_Witness ==
    /\ impl \in {"inverse", "exhaustive"}
    /\ last.action[1] = "move_to" /\ last.success
    /\ last.action[3] # TableIdOf(objects)
    /\ OnSupportChain(last.action[3], last.action[2], objects)
    /\ \E a \in Range(ReverseActions(objects)) : a[1] = "move_to"

-----------------------------------------------------------------------------
(* Claims on calls of the transition functions with any action (under       *)
(* SpecCall)                                                                *)

\* the call that has just returned was given a move of an object of the
\* state onto an object of the state
MoveCalled ==
    /\ last.action[1] \in {"move", "move_to"}
    /\ last.action[2] \in IdsOf(last.input)
    /\ last.action[3] \in IdsOf(last.input)

\* C13: Move(o, t) or MoveTo(o, t), applied to any state, reports success
\* exactly when o is liftable and t can receive, and then o rests on t; it
\* reports failure otherwise.
C13_MoveChecksBothPreconditions ==
    MoveCalled =>
        /\ last.success <=> (/\ IsMovableRule(last.action[2], last.input)
                             /\ CanReceiveRule(last.action[3], last.input))
        /\ last.success =>
              Obj(last.action[2], last.new_state).SUR_ID = last.action[3]

\* C14: a call never modifies the state passed in, and a failed call returns
\* a state equal to it.
C14_InputStateUntouched ==
    last.action # NoAction =>
        /\ last.input_after = last.input
        /\ (~last.success /\ ~last.raised)
              => states_equal(last.new_state, last.input)

\* C14 witness: a call has succeeded and returned a state that differs from
\* the one passed in.
C14_Witness ==
    /\ last.action # NoAction
    /\ last.success
    /\ ~states_equal(last.new_state, last.input)
    /\ last.input_after = last.input

\* C15: LayDown(o) on an o that is already lying and otherwise eligible
\* reports success and returns a state equal to the input, in every file.
C15_LayDownIdempotent ==
    (/\ last.action[1] = "lay_down"
     /\ last.action[2] \in IdsOf(last.input)
     /\ Obj(last.action[2], last.input).COUCHE
     /\ CanLieDownRule(last.action[2], last.input))
        => /\ last.success
           /\ states_equal(last.new_state, last.input)

\* C16: StandUp(o) on an o that is already standing (o an object that may
\* change orientation: not the table, not a cube, nothing on it) reports
\* success and returns a state equal to the input.
C16_StandUpIdempotent ==
    (/\ last.action[1] = "stand_up"
     /\ last.action[2] \in IdsOf(last.input)
     /\ ~Obj(last.action[2], last.input).COUCHE
     /\ CanLieDownRule(last.action[2], last.input))
        => /\ last.success
           /\ states_equal(last.new_state, last.input)

\* the key and the comparison of the running file
KeyOf(s) ==
    IF impl = "exhaustive" THEN state_to_string_exh(s) ELSE state_to_string(s)

EqualOf(a, b) ==
    IF impl = "exhaustive" THEN states_equal_exh(a, b) ELSE states_equal(a, b)

\* a state as given and with its objects listed in the opposite order
Listings(s) == {s, [i \in 1..Len(s) |-> s[Len(s) + 1 - i]]}

\* C17: two states over the same uniquely identified objects have the same
\* key exactly when states_equal holds of them, whatever the order of their
\* objects; for the forward key and for the reverse key without the table.
C17_KeyAgreesWithStatesEqual ==
    last.action # NoAction =>
        \A a \in Listings(last.input) :
            \A b \in Listings(last.input) \cup Listings(last.new_state) :
                KeyOf(a) = KeyOf(b) <=> EqualOf(a, b)

-----------------------------------------------------------------------------
(* Claims on the table and on the searches' bookkeeping *)

\* the record of the table in s
TableOf(s) == s[TableIdx(s)]

\* C18: no generated action, forward or reverse, moves, lays down or stands
\* up the table: along every sequence of generated actions the table's
\* support id and lying flag stay those of the root state.
C18_TableNeverChanges ==
    [][/\ TableOf(objects').SUR_ID = TableOf(objects).SUR_ID
       /\ TableOf(objects').COUCHE = TableOf(objects).COUCHE
       /\ last'.action[2] # TableIdOf(objects)]_vars

\* C18 witness: a generated reverse action of the file whose key omits the
\* table has moved an object onto the table.
C18_Witness ==
    /\ impl = "exhaustive"
    /\ last.action[1] = "move_to" /\ last.success
    /\ last.action[3] = TableIdOf(objects)
    /\ Obj(last.action[2], objects).SUR_ID = TableIdOf(objects)

\* the canonical key of a node of the arena
NodeKey(n) ==
    IF impl = "all_paths" THEN state_to_string_all(n.states)
    ELSE n.state_string

\* C19: at every point of a breadth-first search no two nodes of the arena
\* have both the same canonical key and the same depth.
C19_OneNodePerStateAndDepth ==
    \A i, j \in 1..Len(graph_data) :
        (i # j /\ graph_data[i].depth = graph_data[j].depth)
            => NodeKey(graph_data[i]) # NodeKey(graph_data[j])

\* a bounded search has a solution in hand
SolutionInHand ==
    \/ impl = "forward" /\ solutions # <<>>
    \/ impl = "inverse" /\ found_solution

\* C20: a bounded search stops at the first dequeued node equal to the
\* target: from then on no node is created or expanded and no second path
\* is added.
C20_StopsAtFirstSolution ==
    [][SolutionInHand =>
          /\ graph_data' = graph_data
          /\ visited_states' = visited_states
          /\ solutions' = solutions
          /\ solution_path' = solution_path]_vars

-----------------------------------------------------------------------------
(* The exhaustive search *)

\* the state after the first k actions of acts, applied to s one after
\* another with the transition function of exhaustive_all_paths.py
RECURSIVE StateAfter(_, _, _)
StateAfter(s, acts, k) ==
    IF k = 0 THEN s
    ELSE apply_reverse_action_exh(StateAfter(s, acts, k - 1), acts[k]).new_state

IsProperPrefix(a, b) == Len(a) < Len(b) /\ SubSeq(b, 1, Len(a)) = a

\* C21: the exhaustive search records a solution when the running state is
\* the target and does not go on from it: no recorded sequence of actions is
\* a proper prefix of another, and on a recorded path the target state is
\* the last state and no state before it.
C21_NoSolutionBeyondTarget ==
    impl = "exhaustive" /\ pc \in {"loop", "done"} =>
        \A i \in 1..Len(solutions) :
            LET acts == solutions[i].taken IN
            /\ \A j \in 1..Len(solutions) :
                    ~IsProperPrefix(acts, solutions[j].taken)
            /\ states_equal_exh(StateAfter(goal_state, acts, Len(acts)), start_state)
            /\ \A k \in 0..(Len(acts) - 1) :
                    ~states_equal_exh(StateAfter(goal_state, acts, k), start_state)

\* the search has returned two solutions of different lengths: the shorter
\* one was recorded and its branch left at once
C21_Witness ==
    /\ impl = "exhaustive" /\ pc = "done"
    /\ \E i, j \in 1..Len(solutions) :
          /\ 1 <= Len(solutions[i].taken)
          /\ Len(solutions[i].taken) < Len(solutions[j].taken)

\* the sequences of at most k generated actions that lead from s to target
\* and do not meet target before their end
RECURSIVE SequencesTo(_, _, _)
SequencesTo(s, target, k) ==
    IF states_equal_exh(s, target) THEN {<<>>}
    ELSE IF k = 0 THEN {}
    ELSE UNION { { <<a>> \o rest :
                     rest \in SequencesTo(apply_reverse_action_exh(s, a).new_state,
                                          target, k - 1) } :
                 a \in { b \in Range(get_all_possible_reverse_actions_exh(s)) :
                            apply_reverse_action_exh(s, b).success } }

\* C22: the exhaustive search returns exactly one entry for every sequence
\* of at most max_depth generated actions that leads from the root to the
\* target without meeting the target earlier: every such sequence is
\* reported, sequences that end in the same state included, and none is
\* reported twice.
C22_OneEntryPerActionSequence ==
    impl = "exhaustive" /\ pc = "done" =>
        /\ { solutions[i].taken : i \in 1..Len(solutions) }
             = SequencesTo(goal_state, start_state, max_depth)
        /\ \A i, j \in 1..Len(solutions) :
                solutions[i].taken = solutions[j].taken => i = j

\* the solutions the exhaustive search returns for the start, the goal and
\* the depth bound of the breadth-first search of this run
ExhaustiveSolutions ==
    exhaustive_path_search(goal_state, start_state, max_depth).all_solutions

\* C23: for the same start, goal and depth bound the exhaustive search
\* returns at least as many solutions as the bounded breadth-first search
\* (which returns none or one), and when the breadth-first search returns a
\* path of L actions the exhaustive result holds a path of L actions.
C23_ExhaustiveCoversBFS ==
    Returned =>
        /\ Len(ExhaustiveSolutions) >= 1
        /\ \A L \in ReturnedLengths :
                \E i \in 1..Len(ExhaustiveSolutions) :
                    ExhaustiveSolutions[i].steps_count = L

-----------------------------------------------------------------------------
(* Generators and transitions *)

\* C24: generator and transition never disagree: every action a generator
\* emits for a state, applied to that state with the transition function of
\* the same file, reports success.
C24_GeneratedActionsSucceed ==
    last.action # NoAction => last.success

\* a generated move has been applied and has put the object on its target
C24_Witness ==
    /\ last.action # NoAction
    /\ last.action[1] \in {"move", "move_to"}
    /\ last.success
    /\ objects[FindIdx(last.action[2], objects)].SUR_ID = last.action[3]

-----------------------------------------------------------------------------
(* Termination (under SpecSearch) *)

\* no sequence of at most max_depth generated actions leads from the root
\* of the search to its target
TargetOutOfReach ==
    IF impl \in {"forward", "inverse"} THEN Distance > max_depth
    ELSE SequencesTo(goal_state, start_state, max_depth) = {}

\* the result of a search that found nothing
NegativeResult ==
    /\ solutions = <<>>
    /\ ~found_solution /\ solution_path = <<>>

-----------------------------------------------------------------------------
(* Validation of the start and goal states (under SpecSearch) *)

\* C26: a start or goal state that names a support id no object has, or
\* whose support relation has a cycle (an object on itself included), is
\* rejected before the search creates a node or expands a state.
C26_IllFormedStateRejected ==
    (start_state # <<>> /\ (~WellFormed(start_state) \/ ~WellFormed(goal_state)))
        => graph_data = <<>> /\ node_counter = 0

-----------------------------------------------------------------------------
(* The node arena (under SpecBFS) *)

\* how often node id n is listed among the children of the node at index p
TimesChild(graph, p, n) ==
    Cardinality({ k \in 1..Len(graph[p].children) : graph[p].children[k] = n })

\* the arena is a tree rooted at node 0
ArenaIsTree(graph) ==
    /\ \A i \in 1..Len(graph) : graph[i].id = i - 1
    /\ Cardinality({ i \in 1..Len(graph) : graph[i].parent = NoneId }) = 1
    /\ \A i \in 1..Len(graph) :
          graph[i].parent # NoneId =>
              graph[i].parent >= 0 /\ graph[i].parent < graph[i].id
    /\ \A p, n \in 1..Len(graph) :
          TimesChild(graph, p, graph[n].id)
              = IF graph[n].parent = graph[p].id THEN 1 ELSE 0

\* C27: after the create_node calls of a search the arena is a tree rooted
\* at node 0: a node's id is its position, one node and no other has no
\* parent, every other node's parent has a smaller id, and n is listed
\* exactly once among the children of p if and only if p is n's parent.
C27_ArenaIsTree ==
    graph_data # <<>> => ArenaIsTree(graph_data)

\* the positions of the nodes on the parent chain of the node at position
\* i, the root first
RECURSIVE ChainTo(_, _)
ChainTo(graph, i) ==
    IF graph[i].parent = NoneId THEN <<i>>
    ELSE ChainTo(graph, graph[i].parent + 1) \o <<i>>

\* the state after the first k actions of acts, applied to s one after
\* another with the transition function of the forward or the reverse file
RECURSIVE ReplayBy(_, _, _, _)
ReplayBy(s, acts, k, mode) ==
    IF k = 0 THEN s
    ELSE LET before == ReplayBy(s, acts, k - 1, mode) IN
         IF mode = "forward" THEN apply_action(before, acts[k]).new_state
         ELSE apply_reverse_action(before, acts[k]).new_state

\* reconstruct_path on the node at position i of the forward arena
ForwardPathRight(i) ==
    LET node == graph_data[i]
        path == reconstruct_path(graph_data, node.id)
        chain == ChainTo(graph_data, i)
        acts == [k \in 1..Len(path) |-> path[k].action]
    IN /\ Len(path) = node.depth
       /\ Len(chain) = Len(path) + 1
       /\ \A k \in 1..Len(path) :
             /\ path[k].action = graph_data[chain[k + 1]].action
             /\ path[k].description = graph_data[chain[k + 1]].description
       /\ states_equal(ReplayBy(graph_data[1].states, acts, Len(acts), "forward"),
                       node.states)
       /\ get_path_to_node_explorer(graph_data, node.id)
             = [k \in 1..Len(chain) |-> graph_data[chain[k]]]

\* get_path_to_node on the node at position i of the reverse arena
ReversePathRight(i) ==
    LET node == graph_data[i]
        path == get_path_to_node(graph_data, node.id)
        chain == ChainTo(graph_data, i)
        acts == [k \in 1..node.depth |-> graph_data[chain[k + 1]].reverse_action]
    IN /\ Len(path) = node.depth + 1
       /\ Len(chain) = Len(path)
       /\ \A k \in 1..Len(path) : path[k] = graph_data[chain[Len(chain) + 1 - k]]
       /\ states_equal(ReplayBy(graph_data[1].states, acts, Len(acts), "inverse"),
                       node.states)

TargetFlag(node) ==
    IF impl = "forward" THEN node.is_goal ELSE node.is_initial

\* C29: when a search call has finished, every node of the arena has its
\* flag (is_goal, is_initial) set if and only if its stored state equals the
\* target state the call was given.
C29_FlagMarksTarget ==
    pc = "done" /\ impl \in {"forward", "inverse", "all_paths"} =>
        \A i \in 1..Len(graph_data) :
            TargetFlag(graph_data[i])
                <=> states_equal(graph_data[i].states, SearchTarget)

-----------------------------------------------------------------------------
(* Repeated calls (under SpecRepeat) *)

\* the second call has returned what the first returned and has left the
\* arena the first left
SameAsFirstCall ==
    /\ solutions = previous.solutions
    /\ found_solution = previous.found_solution
    /\ solution_path = previous.solution_path
    /\ graph_data = previous.graph_data

\* C30: a search called a second time with the same start state, goal state
\* and depth bound, on a new search object or on the one the first call
\* used, returns the same solution paths and the same node graph as the
\* first call
C30_SecondCallRepeatsFirst ==
    (pc = "done" /\ previous # <<>>) => SameAsFirstCall

-----------------------------------------------------------------------------
(* Round trips of the transition functions (under SpecPair) *)

SupportOf(obj_id, s) == s[FindIdx(obj_id, s)].SUR_ID

\* the last two calls both succeeded, the first from file f1 with an action
\* of kind k1, the second from file f2 with an action of kind k2 on the
\* same object
TwoCalls(f1, k1, f2, k2) ==
    /\ last.action # NoAction /\ last.success
    /\ last.prev.action # NoAction /\ last.prev.success
    /\ last.prev.impl = f1 /\ last.prev.action[1] = k1
    /\ last.impl = f2 /\ last.action[1] = k2
    /\ last.action[2] = last.prev.action[2]

\* a forward move of o followed by the reverse move of o onto the support
\* it had
MoveThenMoveBack ==
    /\ TwoCalls("forward", "move", "inverse", "move_to")
    /\ last.action[3] = SupportOf(last.action[2], last.prev.input)

\* C31: when apply_action succeeds with move(o, t) on S and
\* apply_reverse_action succeeds with move_to(o, s) on the result, s the
\* support o has in S, the state returned is S
C31_MoveThenMoveBackRestores ==
    MoveThenMoveBack =>
        /\ last.new_state = last.prev.input
        /\ states_equal(last.new_state, last.prev.input)

\* a move that changed the support of o has been undone
C31_Witness ==
    /\ MoveThenMoveBack
    /\ last.action[3] # last.prev.action[3]
    /\ last.input # last.prev.input
    /\ last.new_state = last.prev.input

\* a lay-down and a stand-up of one object, in either order, by the files
\* that have the action
LayDownAndStandUp ==
    \/ TwoCalls("forward", "lay_down", "inverse", "stand_up")
    \/ TwoCalls("inverse", "lay_down", "inverse", "stand_up")
    \/ TwoCalls("inverse", "stand_up", "forward", "lay_down")
    \/ TwoCalls("inverse", "stand_up", "inverse", "lay_down")

FlagOf(obj_id, s) == s[FindIdx(obj_id, s)].COUCHE

\* C32: when a lay-down of o and then a stand-up of o succeed, or a stand-up
\* and then a lay-down, o has in the state returned the lying flag it had
\* in S and every object has the support it had in S
C32_LayDownStandUpRestores ==
    LayDownAndStandUp =>
        /\ FlagOf(last.action[2], last.new_state)
              = FlagOf(last.action[2], last.prev.input)
        /\ \A i \in 1..Len(last.new_state) :
              last.new_state[i].SUR_ID = last.prev.input[i].SUR_ID

-----------------------------------------------------------------------------
(* The node budget of the exhaustive search (under SpecDFS) *)

\* a total-node budget a caller would set; exhaustive_path_search has no
\* parameter for it and returns all_solutions alone
NodeBudget == 3

\* C33: the exhaustive search counts every expanded node in nodes_explored
\* and, given a total-node budget, expands no node once nodes_explored has
\* reached the budget
C33_BudgetStopsExpansion ==
    impl = "exhaustive" => node_counter <= NodeBudget

-----------------------------------------------------------------------------
(* The frame of the transition functions (under SpecCall) *)

\* record i of the returned state differs from record i of the input in
\* the fields named only
ChangedOnly(i, fields) ==
    LET old == last.input[i]
        new == last.new_state[i]
    IN /\ new.ID = old.ID /\ new.NOM = old.NOM /\ new.FORME = old.FORME
       /\ ("SUR_ID" \notin fields => new.SUR_ID = old.SUR_ID)
       /\ ("COUCHE" \notin fields => new.COUCHE = old.COUCHE)

IdsAndShapes(s) == [i \in 1..Len(s) |-> <<s[i].ID, s[i].FORME>>]

\* C34: a successful move or move_to of o changes the support id of o only
\* and a successful lay_down or stand_up of o the lying flag of o only; no
\* other object and no other field of o changes, so the state a run has
\* reached holds the ids and shapes it started with
C34_ActionsChangeOneField ==
    (last.action # NoAction /\ last.success) =>
        /\ Len(last.new_state) = Len(last.input)
        /\ \A i \in 1..Len(last.input) :
              IF last.input[i].ID # last.action[2] THEN ChangedOnly(i, {})
              ELSE IF last.action[1] \in {"move", "move_to"}
                   THEN /\ ChangedOnly(i, {"SUR_ID"})
                        /\ last.new_state[i].SUR_ID = last.action[3]
                   ELSE ChangedOnly(i, {"COUCHE"})
        /\ IdsAndShapes(objects) = IdsAndShapes(last.input)

\* a call has changed the one field of its action
C34_Witness ==
    /\ last.action # NoAction /\ last.success
    /\ last.new_state # last.input
    /\ objects = last.new_state

-----------------------------------------------------------------------------
(* Node depths (under SpecBFS) *)

\* a parentless node has depth 0 and any other node the depth of its
\* parent plus one
DepthsFollowParents(graph) ==
    \A i \in 1..Len(graph) :
        IF graph[i].parent = NoneId THEN graph[i].depth = 0
        ELSE /\ FindNode(graph, graph[i].parent) # 0
             /\ graph[i].depth
                  = graph[FindNode(graph, graph[i].parent)].depth + 1

\* the arena holds its nodes in non-decreasing depth order
LevelOrder(graph) ==
    \A i, j \in 1..Len(graph) : i < j => graph[i].depth <= graph[j].depth

-----------------------------------------------------------------------------
(* The snapshots the nodes store (under SpecNode) *)

\* C36: the state stored in a node never changes once the node is created:
\* whatever action is applied afterwards to the state the node was created
\* from, or to a state derived from it, every object of the stored state
\* keeps its support and its lying flag
C36_NodeSnapshotNeverChanges ==
    [][\A i \in 1..Len(graph_data) :
          /\ i <= Len(graph_data')
          /\ graph_data'[i].states = graph_data[i].states]_vars

\* a node was created, and the search has since changed a support and a
\* lying flag in the states it went on to
C36_Witness ==
    /\ graph_data # <<>>
    /\ Len(objects) = Len(graph_data[1].states)
    /\ \E i \in 1..Len(objects) : objects[i].SUR_ID # graph_data[1].states[i].SUR_ID
    /\ \E i \in 1..Len(objects) : objects[i].COUCHE # graph_data[1].states[i].COUCHE

-----------------------------------------------------------------------------
(* The stacking rules along forward runs (under Spec) *)

Carried(obj_id, s) == { i \in 1..Len(s) : s[i].SUR_ID = obj_id /\ s[i].ID # obj_id }

\* every cube carries at most one object, every cylinder that carries an
\* object stands and every ring that carries an object lies
ShapeRulesHold(s) ==
    \A i \in 1..Len(s) :
        /\ s[i].FORME = "CUBE" => Cardinality(Carried(s[i].ID, s)) <= 1
        /\ (s[i].FORME = "CYLINDRE" /\ Carried(s[i].ID, s) # {}) => ~s[i].COUCHE
        /\ (s[i].FORME = "DONUT_SAUCISSE" /\ Carried(s[i].ID, s) # {})
              => s[i].COUCHE

\* C37: a forward generated action applied to a state in which every
\* supporting object satisfies its shape rule gives a state in which every
\* supporting object does, so every state reachable from such a start
\* state satisfies the three conditions
C37_ForwardKeepsShapeRules ==
    [][(impl = "forward" /\ ShapeRulesHold(objects)) => ShapeRulesHold(objects')]_vars

\* a forward move has put an object on a cube, a cylinder or a ring, in a
\* state that satisfies the rules
C37_Witness ==
    /\ impl = "forward" /\ last.action[1] = "move" /\ last.success
    /\ ShapeRulesHold(objects)
    /\ \E i \in 1..Len(objects) :
          /\ objects[i].ID = last.action[3]
          /\ objects[i].FORME \in {"CUBE", "CYLINDRE", "DONUT_SAUCISSE"}

-----------------------------------------------------------------------------
(* The lying flag in the forward search (under SpecBFS) *)

\* every object that lies in state s lies in state t
LyingStaysLying(s, t) ==
    \A i \in 1..Len(s) :
        s[i].COUCHE => \E j \in 1..Len(t) : t[j].ID = s[i].ID /\ t[j].COUCHE

\* some object lies in the start state and stands in the goal
GoalStandsUpALyingObject ==
    ~LyingStaysLying(start_state, goal_state)

\* C38: in the forward search every object that lies in a node's state
\* lies in the states of the node's children, and a goal in which an
\* object stands that lies in the start state is never reached, whatever
\* the depth bound
C38_LyingIsMonotone ==
    impl = "forward" =>
        /\ \A i \in 1..Len(graph_data) :
              graph_data[i].parent # NoneId =>
                  LyingStaysLying(
                      graph_data[FindNode(graph_data, graph_data[i].parent)].states,
                      graph_data[i].states)
        /\ GoalStandsUpALyingObject => solutions = <<>>

\* a forward search for a goal that stands a lying object up has returned,
\* after it laid an object down
C38_Witness ==
    /\ impl = "forward" /\ pc = "done"
    /\ GoalStandsUpALyingObject
    /\ \E i \in 1..Len(graph_data) :
          graph_data[i].action # <<>> /\ graph_data[i].action[1] = "lay_down"
    /\ solutions = <<>>

-----------------------------------------------------------------------------
(* The reverse search against forward reachability (under SpecBFS) *)

\* the least number of forward generated actions from the start state to
\* the goal, max_depth + 1 when more than max_depth are needed
ForwardDistance ==
    FirstLevel({start_state}, {start_state}, 0, goal_state, "forward", max_depth)

\* C39: when the goal is reachable from the start state by k <= max_depth
\* forward generated actions, the reverse search seeded at the goal finds
\* the start state at a depth of at most k
C39_ReverseFindsForwardReachable ==
    (impl = "inverse" /\ pc = "done" /\ ForwardDistance <= max_depth) =>
        /\ found_solution
        /\ Len(solution_path) - 1 <= ForwardDistance

-----------------------------------------------------------------------------
(* The cycle guard of the exhaustive generators (under Spec) *)

\* obj_id is on the support chain that starts at target_id and ends at the
\* table
OnChainOf(obj_id, target_id, s) ==
    \E n \in 0..Len(s) : Up(target_id, n, s) = obj_id

\* C40: in a well-formed state, whatever id the table has and whatever
\* support id its record carries, would_create_cycle(o, t, state) is true
\* only when o is on the support chain that starts at t; it is false for
\* t the table
C40_CycleGuardExact ==
    WellFormed(objects) =>
        \A o \in IdsOf(objects), t \in IdsOf(objects) :
            would_create_cycle_exh(o, t, objects) => OnChainOf(o, t, objects)

====
